---------------------------- MODULE Spec2Model ----------------------------
(***************************************************************************)
(* Model of the anomaly-detection backend (src/MLBackend): the rolling     *)
(* window feature extractor (data_processor.py), the anomaly scorer        *)
(* (ml_model.py) and the detection session controller / streaming          *)
(* coordinator (app.py).                                                   *)
(*                                                                         *)
(* Floats are modelled in fixed point: a value x is the integer x * Scale  *)
(* (hundredths).  Python's None is the empty sequence <<>> and an object   *)
(* reference is a one-element sequence <<obj>>; ids are naturals with 0    *)
(* standing for the falsy value (None or 0).                               *)
(***************************************************************************)
EXTENDS Integers, Sequences, FiniteSets, TLC

\* ------------------------------------------------- globals of app.py
VARIABLES
    processor,                 \* the DataProcessor
    current_detector,          \* None or <<AnomalyDetector>>
    current_model_id,          \* 0 when unset
    current_user_id,           \* 0 when nobody is logged in
    detection_running,
    serial_connected,
    serial_connection,         \* "none", "open"
    data_collection_active,
    sample_counter,
    auto_stop_timer,           \* 0 (None) or the index of a timer in timers
    detection_predictions,     \* the tally of the running session
    detection_window_complete,
    session_history

\* ------------------------------------------------------ threads
VARIABLES
    loop,                      \* the arduino_connection_loop thread
    start_h,                   \* a handle_start_detection invocation
    stop_h,                    \* a handle_stop_detection invocation
    timers                     \* the threading.Timer objects created so far

\* ------------------------------------------- environment, observations
VARIABLES
    clock,                     \* time.time()
    emitted,                   \* the event the last step emitted to the client
    result,                    \* None or <<what the last call returned>>
    since_reset,               \* readings processed since construction / reset
    finalized,                 \* per session: verdicts computed, entries saved
    commands                   \* commands the clients have issued so far

appVars == <<processor, current_detector, current_model_id, current_user_id,
             detection_running, serial_connected, serial_connection,
             data_collection_active, sample_counter, auto_stop_timer,
             detection_predictions, detection_window_complete, session_history>>
threadVars == <<loop, start_h, stop_h, timers>>
obsVars == <<clock, emitted, result, since_reset, finalized, commands>>
vars == <<appVars, threadVars, obsVars>>

\* ------------------------------------------------------------------ bounds
\* Window size the processor and the detector are instantiated with (the
\* code's default is 50 for both; the model scales it down).
WindowSize == 2
\* Number of ml_ready predictions after which the producer loop finalizes
\* the session (the literal 50 of app.py:807, scaled down).
AnalysisCompleteCount == 1
\* Readings the model lets the source deliver.
MaxReadings == 3
\* Commands the model lets the clients issue.
MaxCommands == 5
\* Predictions in a tally of the verdict specification.
MaxTally == 10
\* Saves performed by the history specification.
MaxSaves == 12
\* Window size of the session specification: above SAMPLE_EVERY_N, as the
\* code's default of 50 is.
SessionWindow == 4
\* ml_ready predictions that finalize a session of the session specification
\* (the literal 50 of app.py:807, scaled down).
SessionCompleteCount == 5
\* Valid readings the session specification follows.
MaxSamples == 15
\* Commands the client of the session specification issues.
MaxSessionCommands == 3
\* Readings fed to the processor of the buffer specification.
MaxBufferReadings == 4
\* Commands handled and lines read in the producer specification.
MaxProducerCommands == 4
MaxLines == 2

\* ------------------------------------------------------- program constants
Scale == 100
HistoryCap == 10
ChartPoints == 50
SAMPLE_EVERY_N == 3
anomaly_threshold == 20
score_threshold == 70
DefaultThreshold == 50

None == <<>>
Some(x) == <<x>>

\* ----------------------------------------------------------------- helpers
Min(a, b) == IF a <= b THEN a ELSE b
Max(a, b) == IF a >= b THEN a ELSE b
Abs(a) == IF a >= 0 THEN a ELSE -a

\* float division a / b for b # 0, in fixed point (result scaled by Scale)
FDiv(a, b) == IF b > 0 THEN (a * Scale) \div b ELSE ((-a) * Scale) \div (-b)

RECURSIVE SeqSum(_)
SeqSum(s) == IF s = <<>> THEN 0 ELSE Head(s) + SeqSum(Tail(s))

RECURSIVE SeqMin(_)
SeqMin(s) == IF Len(s) = 1 THEN Head(s) ELSE Min(Head(s), SeqMin(Tail(s)))

RECURSIVE SeqMax(_)
SeqMax(s) == IF Len(s) = 1 THEN Head(s) ELSE Max(Head(s), SeqMax(Tail(s)))

RECURSIVE SqrtSearch(_, _, _)
SqrtSearch(n, lo, hi) ==
    IF lo >= hi THEN lo
    ELSE LET mid == (lo + hi + 1) \div 2
         IN  IF mid * mid <= n THEN SqrtSearch(n, mid, hi)
             ELSE SqrtSearch(n, lo, mid - 1)

\* floor of the square root (46340 is the largest root of a 32-bit integer)
ISqrt(n) == SqrtSearch(n, 0, Min(n, 46340))

\* dict.get(key, default)
Get(d, k, default) == IF k \in DOMAIN d THEN d[k] ELSE default

\* the last n elements of a list: s[-n:]
LastN(s, n) == IF Len(s) <= n THEN s ELSE SubSeq(s, Len(s) - n + 1, Len(s))

\* ------------------------------------------------- data_processor.py
\* DataProcessor.__init__
NewProcessor(window_size) ==
    [window_size |-> window_size, voltage_buffer |-> <<>>,
     timestamp_buffer |-> <<>>, sample_count |-> 0, start_time |-> None]

\* variant: a full deque refuses the new element
DequeAppend_drop_newest(buf, x, maxlen) ==
    IF Len(buf) >= maxlen THEN buf ELSE Append(buf, x)

\* deque(maxlen=n).append(x): the oldest element is dropped on overflow
DequeAppend(buf, x, maxlen) ==
    IF maxlen = 0 THEN <<>>
    ELSE IF Len(buf) >= maxlen THEN Append(SubSeq(buf, Len(buf) - maxlen + 2, Len(buf)), x)
    ELSE Append(buf, x)

\* deque(data, maxlen=n): keeps the last n elements
DequeOf(data, maxlen) == LastN(data, maxlen)

_get_empty_statistical_features ==
    [voltage_mean |-> 0, voltage_std |-> 0, voltage_min |-> 0,
     voltage_max |-> 0, voltage_range |-> 0]

\* mean, population standard deviation, min, max and range of the window.
\* The remaining statistical features (median, quartiles, skewness,
\* kurtosis, cv, zero crossings, peaks) are read by no modelled consumer
\* and are left out of the record.
_calculate_statistical_features(voltage_list) ==
    IF voltage_list = <<>> THEN _get_empty_statistical_features
    ELSE LET n   == Len(voltage_list)
             sum == SeqSum(voltage_list)
             sq  == SeqSum([i \in 1..n |-> voltage_list[i] * voltage_list[i]])
             lo  == SeqMin(voltage_list)
             hi  == SeqMax(voltage_list)
         IN  [voltage_mean  |-> IF sum >= 0 THEN sum \div n ELSE -((-sum) \div n),
              voltage_std   |-> ISqrt(n * sq - sum * sum) \div n,
              voltage_min   |-> lo,
              voltage_max   |-> hi,
              voltage_range |-> hi - lo]

\* time span of the window and time since the first reading (sampling_rate
\* and avg_time_interval are read by no modelled consumer and left out)
_calculate_temporal_features(timestamp_list, start_time) ==
    IF Len(timestamp_list) < 2
    THEN [time_span |-> 0,
          time_since_start |->
              IF timestamp_list # <<>> /\ start_time # None /\ start_time[1] # 0
              THEN timestamp_list[1] - start_time[1] ELSE 0]
    ELSE [time_span |-> timestamp_list[Len(timestamp_list)] - timestamp_list[1],
          time_since_start |-> timestamp_list[Len(timestamp_list)] - start_time[1]]

\* process_voltage with window_full tested as len(buffer) > window_size
process_voltage_strict_full(p, voltage, timestamp) ==
    LET start == IF p.start_time = None THEN Some(timestamp) ELSE p.start_time
        vbuf  == DequeAppend(p.voltage_buffer, voltage, p.window_size)
        tbuf  == DequeAppend(p.timestamp_buffer, timestamp, p.window_size)
        count == p.sample_count + 1
        stat  == _calculate_statistical_features(vbuf)
        temp  == _calculate_temporal_features(tbuf, start)
    IN  [processor |-> [p EXCEPT !.start_time = start, !.voltage_buffer = vbuf,
                                 !.timestamp_buffer = tbuf, !.sample_count = count],
         features  |-> [voltage_mean |-> stat.voltage_mean,
                        voltage_std |-> stat.voltage_std,
                        voltage_min |-> stat.voltage_min,
                        voltage_max |-> stat.voltage_max,
                        voltage_range |-> stat.voltage_range,
                        time_span |-> temp.time_span,
                        time_since_start |-> temp.time_since_start,
                        sample_count |-> count,
                        buffer_size |-> Len(vbuf),
                        window_full |-> Len(vbuf) > p.window_size,
                        current_voltage |-> voltage,
                        current_timestamp |-> timestamp]]

\* DataProcessor.process_voltage: the processor after the call and the
\* feature dictionary it returns
process_voltage(p, voltage, timestamp) ==
    LET start == IF p.start_time = None THEN Some(timestamp) ELSE p.start_time
        vbuf  == DequeAppend(p.voltage_buffer, voltage, p.window_size)
        tbuf  == DequeAppend(p.timestamp_buffer, timestamp, p.window_size)
        count == p.sample_count + 1
        stat  == _calculate_statistical_features(vbuf)
        temp  == _calculate_temporal_features(tbuf, start)
    IN  [processor |-> [p EXCEPT !.start_time = start, !.voltage_buffer = vbuf,
                                 !.timestamp_buffer = tbuf, !.sample_count = count],
         features  |-> [voltage_mean |-> stat.voltage_mean,
                        voltage_std |-> stat.voltage_std,
                        voltage_min |-> stat.voltage_min,
                        voltage_max |-> stat.voltage_max,
                        voltage_range |-> stat.voltage_range,
                        time_span |-> temp.time_span,
                        time_since_start |-> temp.time_since_start,
                        sample_count |-> count,
                        buffer_size |-> Len(vbuf),
                        window_full |-> Len(vbuf) >= p.window_size,
                        current_voltage |-> voltage,
                        current_timestamp |-> timestamp]]

\* variant: reset that keeps start_time
reset_keeps_start_time(p) ==
    [p EXCEPT !.voltage_buffer = <<>>, !.timestamp_buffer = <<>>, !.sample_count = 0]

\* DataProcessor.reset
reset(p) ==
    [p EXCEPT !.voltage_buffer = <<>>, !.timestamp_buffer = <<>>,
              !.sample_count = 0, !.start_time = None]

\* DataProcessor.update_window_size
update_window_size(p, new_size) ==
    IF new_size > 0
    THEN [p EXCEPT !.window_size = new_size,
                   !.voltage_buffer = DequeOf(p.voltage_buffer, new_size),
                   !.timestamp_buffer = DequeOf(p.timestamp_buffer, new_size)]
    ELSE p

\* ------------------------------------------------------- ml_model.py
\* AnomalyDetector.__init__ (no config path: app.py never passes one).
\* model is TRUE when a model handle is held; model_type "none" is None.
AnomalyDetector ==
    [model |-> FALSE, threshold |-> DefaultThreshold, model_type |-> "none",
     is_loaded |-> FALSE, window_size |-> WindowSize]

\* What load_model meets at model_path: the file is missing, its extension,
\* whether the framework imports, whether loading raises.
ModelFiles ==
    {"missing", "pkl", "pkl_load_error", "h5", "h5_no_framework",
     "pt", "pt_no_framework", "unsupported"}

\* AnomalyDetector.load_model
load_model(det, file) ==
    CASE file = "pkl" ->
           [det EXCEPT !.model = TRUE, !.model_type = "sklearn", !.is_loaded = TRUE]
      [] file = "h5" ->
           [det EXCEPT !.model = TRUE, !.model_type = "tensorflow", !.is_loaded = TRUE]
      [] file = "pt" ->
           [det EXCEPT !.model = TRUE, !.model_type = "pytorch", !.is_loaded = TRUE]
      [] OTHER ->
           [det EXCEPT !.model = FALSE, !.model_type = "rule_based", !.is_loaded = TRUE]

\* AnomalyDetector.update_threshold
update_threshold(det, new_threshold) ==
    [det EXCEPT !.threshold = Max(0, Min(Scale, new_threshold))]

\* the dictionary both backends return on success
ScoredResult(det, score, method) ==
    LET is_anomaly == score > det.threshold
        confidence == IF is_anomaly
                      THEN FDiv(Abs(score - det.threshold), Scale - det.threshold)
                      ELSE FDiv(Abs(score - det.threshold), det.threshold)
    IN  [anomaly_score |-> score, is_anomaly |-> is_anomaly,
         confidence |-> Min(Scale, confidence), method |-> method]

\* the confidence division raises ZeroDivisionError
ConfidenceRaises(det, score) ==
    IF score > det.threshold THEN det.threshold = Scale ELSE det.threshold = 0

\* AnomalyDetector._rule_based_predict
_rule_based_predict(det, features) ==
    LET voltage_std   == Get(features, "voltage_std", 0)
        voltage_mean  == Get(features, "voltage_mean", 0)
        voltage_range == Get(features, "voltage_max", 0) - Get(features, "voltage_min", 0)
        \* min(1.0, (cv * 2 + range_ratio) / 2)
        variability_score ==
            IF voltage_mean # 0
            THEN Min(Scale, FDiv(2 * voltage_std + voltage_range, 2 * voltage_mean))
            ELSE 0
    IN  IF ConfidenceRaises(det, variability_score)
        THEN [anomaly_score |-> 0, is_anomaly |-> FALSE, confidence |-> 0,
              method |-> "error"]
        ELSE ScoredResult(det, variability_score, "rule_based")

\* AnomalyDetector._ml_predict falls back to _rule_based_predict: the
\* inference raises, the model type is none of the three, or the confidence
\* division raises.  raw is what the loaded model answers for the feature
\* vector: [ok |-> FALSE] when inference (or the scaler) raises, else
\* [ok |-> TRUE, value |-> the raw output].
MlScore(det, raw) ==
    IF det.model_type = "sklearn"
    THEN Max(0, Min(Scale, (raw.value + Scale) \div 2))
    ELSE raw.value

MlFallsBack(det, raw) ==
    \/ ~raw.ok
    \/ det.model_type \notin {"sklearn", "tensorflow", "pytorch"}
    \/ ConfidenceRaises(det, MlScore(det, raw))

\* AnomalyDetector._ml_predict
_ml_predict(det, features, raw) ==
    IF MlFallsBack(det, raw)
    THEN _rule_based_predict(det, features)
    ELSE ScoredResult(det, MlScore(det, raw), "ml_model_" \o det.model_type)

\* predict that warms up on is_loaded alone, without the sample_count test
PredictRun_no_warmup(det, features, raw) ==
    LET use_ml == det.model /\ det.model_type # "rule_based"
        scored == IF use_ml THEN _ml_predict(det, features, raw)
                  ELSE _rule_based_predict(det, features)
    IN  [prediction |->
             [anomaly_score |-> scored.anomaly_score,
              is_anomaly |-> scored.is_anomaly,
              confidence |-> scored.confidence, method |-> scored.method,
              status |-> IF det.is_loaded THEN "ml_ready" ELSE "warming_up"],
         invoked |-> IF ~use_ml THEN <<"rule_based">>
                     ELSE IF MlFallsBack(det, raw) THEN <<"ml", "rule_based">>
                     ELSE <<"ml">>]

\* AnomalyDetector.predict: the dictionary it returns and, as invoked, the
\* backends the call ran, in order.  (window_progress, window_size and
\* current_window are display fields read by no modelled consumer and are
\* left out of the dictionary.)
PredictRun(det, features, raw) ==
    LET sample_count == Get(features, "sample_count", 0)
        base == [anomaly_score |-> 0, is_anomaly |-> FALSE, confidence |-> 0,
                 method |-> IF det.model_type = "none" THEN "rule_based" ELSE det.model_type,
                 status |-> IF det.is_loaded THEN "ml_ready" ELSE "warming_up"]
        use_ml == det.model /\ det.model_type # "rule_based"
        scored == IF use_ml THEN _ml_predict(det, features, raw)
                  ELSE _rule_based_predict(det, features)
    IN  IF sample_count < det.window_size
        THEN [prediction |-> [base EXCEPT !.status = "warming_up"], invoked |-> <<>>]
        ELSE [prediction |->
                  [anomaly_score |-> scored.anomaly_score,
                   is_anomaly |-> scored.is_anomaly,
                   confidence |-> scored.confidence, method |-> scored.method,
                   status |-> "ml_ready"],
              invoked |-> IF ~use_ml THEN <<"rule_based">>
                          ELSE IF MlFallsBack(det, raw) THEN <<"ml", "rule_based">>
                          ELSE <<"ml">>]

predict(det, features, raw) == PredictRun(det, features, raw).prediction

\* ------------------------------------------------------------- app.py
\* analyze_detection_session with the percentage rule written >=
analyze_detection_session_ge(preds) ==
    IF preds = <<>>
    THEN [decision |-> "insufficient_data", confidence |-> 0,
          total_predictions |-> 0, anomaly_count |-> 0, anomaly_percentage |-> 0]
    ELSE LET total_predictions == Len(preds)
             anomaly_count ==
                 Cardinality({i \in 1..total_predictions : Get(preds[i], "is_anomaly", FALSE)})
             is_dataset_anomalous ==
                 anomaly_count * 100 >= anomaly_threshold * total_predictions
         IN  [decision |-> IF is_dataset_anomalous THEN "anomalous" ELSE "normal",
              confidence |-> 0,
              total_predictions |-> total_predictions,
              anomaly_count |-> anomaly_count,
              anomaly_percentage |-> (anomaly_count * 100 * Scale) \div total_predictions,
              avg_anomaly_score |-> 0,
              is_anomalous |-> is_dataset_anomalous,
              threshold_used |-> anomaly_threshold]

\* analyze_detection_session without the empty-tally guard
analyze_detection_session_no_guard(preds) ==
    LET total_predictions == Len(preds)
        anomaly_count ==
            Cardinality({i \in 1..total_predictions : Get(preds[i], "is_anomaly", FALSE)})
        is_dataset_anomalous ==
            anomaly_count * 100 > anomaly_threshold * total_predictions
    IN  [decision |-> IF is_dataset_anomalous THEN "anomalous" ELSE "normal",
         confidence |-> 0,
         total_predictions |-> total_predictions,
         anomaly_count |-> anomaly_count,
         anomaly_percentage |-> 0,
         avg_anomaly_score |-> 0,
         is_anomalous |-> is_dataset_anomalous,
         threshold_used |-> anomaly_threshold]

\* analyze_detection_session over the tally detection_predictions
analyze_detection_session(preds) ==
    IF preds = <<>>
    THEN [decision |-> "insufficient_data", confidence |-> 0,
          total_predictions |-> 0, anomaly_count |-> 0, anomaly_percentage |-> 0]
    ELSE LET total_predictions == Len(preds)
             anomaly_count ==
                 Cardinality({i \in 1..total_predictions : Get(preds[i], "is_anomaly", FALSE)})
             sum_confidence ==
                 SeqSum([i \in 1..total_predictions |-> Get(preds[i], "confidence", 0)])
             sum_score ==
                 SeqSum([i \in 1..total_predictions |-> Get(preds[i], "score", 0)])
             \* anomaly_percentage > anomaly_threshold or avg_anomaly_score > score_threshold
             is_dataset_anomalous ==
                 \/ anomaly_count * 100 > anomaly_threshold * total_predictions
                 \/ sum_score > score_threshold * total_predictions
         IN  [decision |-> IF is_dataset_anomalous THEN "anomalous" ELSE "normal",
              confidence |-> sum_confidence \div total_predictions,
              total_predictions |-> total_predictions,
              anomaly_count |-> anomaly_count,
              anomaly_percentage |-> (anomaly_count * 100 * Scale) \div total_predictions,
              avg_anomaly_score |-> IF sum_score >= 0 THEN sum_score \div total_predictions
                                    ELSE -((-sum_score) \div total_predictions),
              is_anomalous |-> is_dataset_anomalous,
              threshold_used |-> anomaly_threshold]

\* the chart_data list of save_session_to_history
ChartData(preds) ==
    LET last == LastN(preds, ChartPoints)
        kept == SelectSeq([i \in 1..Len(last) |-> [i |-> i - 1, p |-> last[i]]],
                          LAMBDA e : Get(e.p, "status", "none") = "ml_ready")
    IN  [j \in 1..Len(kept) |->
            [timestamp |-> kept[j].i,
             is_anomaly |-> Get(kept[j].p, "is_anomaly", FALSE),
             confidence |-> Get(kept[j].p, "confidence", 0),
             anomaly_score |-> Get(kept[j].p, "score", 0)]]

\* save_session_to_history trimming with session_history[:10]
save_session_to_history_keep_first(history, session_analysis, model_name, user_id, stop_reason, preds, now) ==
    LET session_data == [id |-> <<Len(history) + 1, now>>,
                         timestamp |-> now,
                         user_id |-> user_id,
                         model_name |-> model_name,
                         stop_reason |-> stop_reason,
                         analysis |-> session_analysis,
                         chart_data |-> ChartData(preds)]
        appended == Append(history, session_data)
    IN  IF Len(appended) > HistoryCap THEN SubSeq(appended, 1, HistoryCap) ELSE appended

\* save_session_to_history: the history after the call.  now stands for
\* time.time() / datetime.now().
save_session_to_history(history, session_analysis, model_name, user_id, stop_reason, preds, now) ==
    LET session_data == [id |-> <<Len(history) + 1, now>>,
                         timestamp |-> now,
                         user_id |-> user_id,
                         model_name |-> model_name,
                         stop_reason |-> stop_reason,
                         analysis |-> session_analysis,
                         chart_data |-> ChartData(preds)]
        appended == Append(history, session_data)
    IN  IF Len(appended) > HistoryCap THEN LastN(appended, HistoryCap) ELSE appended

\* ---------------------------------------------------- initial state
\* module-level globals of app.py (lines 41-60) and idle threads
NoEvent == [event |-> "none", running |-> FALSE, text |-> ""]

LoopOff ==
    [pc |-> "off", features |-> None, prediction |-> None,
     should_process_ml |-> FALSE, session_analysis |-> None, session |-> 0]

StopIdle == [pc |-> "idle", session_analysis |-> None, session |-> 0]

StartIdle == [pc |-> "idle", file |-> "missing"]

AppInit ==
    /\ processor = NewProcessor(WindowSize)
    /\ current_detector = None
    /\ current_model_id = 0
    /\ current_user_id = 0
    /\ detection_running = FALSE
    /\ serial_connected = FALSE
    /\ serial_connection = "none"
    /\ data_collection_active = TRUE
    /\ sample_counter = 0
    /\ auto_stop_timer = 0
    /\ detection_predictions = <<>>
    /\ detection_window_complete = FALSE
    /\ session_history = <<>>

ThreadsInit ==
    /\ loop = LoopOff
    /\ start_h = StartIdle
    /\ stop_h = StopIdle
    /\ timers = <<>>

ObsInit ==
    /\ clock = 1
    /\ emitted = NoEvent
    /\ result = None
    /\ since_reset = 0
    /\ finalized = <<>>
    /\ commands = 0

\* The features a processor returns for the last of a list of readings
\* <<voltage, timestamp>> fed to it in order.
RECURSIVE Feed(_, _)
Feed(p, readings) ==
    IF Len(readings) = 1
    THEN process_voltage(p, readings[1][1], readings[1][2])
    ELSE Feed(process_voltage(p, readings[1][1], readings[1][2]).processor, Tail(readings))

\* =====================================================================
\* SpecVerdict: the tally of one session is filled with the predictions
\* AnomalyDetector.predict returns for a full window, then analysed.
\* =====================================================================
\* thresholds set through update_threshold before the session is scored
VerdictThresholds == {50, 90}
\* raw decision_function outputs of the sklearn model: scores 0.30, 0.80, 0.95
VerdictRaws == {-40, 60, 90}

FullWindowFeatures ==
    Feed(NewProcessor(WindowSize), [i \in 1..WindowSize |-> <<100, i>>]).features

InitVerdict == AppInit /\ ThreadsInit /\ ObsInit

\* what the verdict specification leaves alone
verdictFrame ==
    <<processor, current_model_id, current_user_id, detection_running,
      serial_connected, serial_connection, data_collection_active,
      sample_counter, auto_stop_timer, detection_window_complete,
      session_history, threadVars, clock, emitted, since_reset, finalized,
      commands>>

\* handle_start_detection, lines 368-374: a fresh detector, an empty tally
VStart ==
    /\ current_detector = None /\ result = None
    /\ current_detector' = Some(load_model(AnomalyDetector, "pkl"))
    /\ detection_predictions' = <<>>
    /\ UNCHANGED <<result, verdictFrame>>

\* handle_update_threshold, arriving before the session's first prediction
VThreshold(t) ==
    /\ current_detector # None /\ detection_predictions = <<>> /\ result = None
    /\ current_detector' = Some(update_threshold(current_detector[1], t))
    /\ UNCHANGED <<detection_predictions, result, verdictFrame>>

\* arduino_connection_loop, lines 789-794: score and append
VScore(raw) ==
    /\ current_detector # None /\ result = None
    /\ Len(detection_predictions) < MaxTally
    /\ detection_predictions' =
           Append(detection_predictions,
                  predict(current_detector[1], FullWindowFeatures,
                          [ok |-> TRUE, value |-> raw]))
    /\ UNCHANGED <<current_detector, result, verdictFrame>>

\* the finalize paths' session_analysis = analyze_detection_session()
VAnalyze ==
    /\ result = None
    /\ result' = Some(analyze_detection_session(detection_predictions))
    /\ UNCHANGED <<current_detector, detection_predictions, verdictFrame>>

\* handle_stop_detection, lines 505-507
VStop ==
    /\ result # None
    /\ current_detector' = None
    /\ detection_predictions' = <<>>
    /\ result' = None
    /\ UNCHANGED verdictFrame

NextVerdict ==
    \/ VStart
    \/ \E t \in VerdictThresholds : VThreshold(t)
    \/ \E raw \in VerdictRaws : VScore(raw)
    \/ VAnalyze
    \/ VStop

SpecVerdict == InitVerdict /\ [][NextVerdict]_vars

\* =====================================================================
\* SpecHistory: sessions are saved one after the other.
\* =====================================================================
HistoryReasons == {"timeout", "manual_stop"}

InitHistory == AppInit /\ ThreadsInit /\ ObsInit

\* save_session_to_history called at time clock; a second passes
HSave(stop_reason) ==
    /\ clock <= MaxSaves
    /\ session_history' =
           save_session_to_history(session_history,
               analyze_detection_session(<<>>), "Unknown Model", 1,
               stop_reason, <<>>, clock)
    /\ clock' = clock + 1
    /\ UNCHANGED <<processor, current_detector, current_model_id, current_user_id,
                   detection_running, serial_connected, serial_connection,
                   data_collection_active, sample_counter, auto_stop_timer,
                   detection_predictions, detection_window_complete,
                   threadVars, emitted, result, since_reset, finalized, commands>>

NextHistory == \E r \in HistoryReasons : HSave(r)

SpecHistory == InitHistory /\ [][NextHistory]_vars

\* =====================================================================
\* SpecWindow: readings are processed one by one and each feature set is
\* scored by a detector.
\* =====================================================================
WindowVoltages == {-100, 0, 200}
WindowFiles == {"missing", "pkl", "h5"}
WindowThresholds == {0, 50, 100}
WindowRaws == {[ok |-> FALSE, value |-> 0], [ok |-> TRUE, value |-> -150],
               [ok |-> TRUE, value |-> 250]}

InitWindow == AppInit /\ ThreadsInit /\ ObsInit

\* what the window specification leaves alone
windowFrame ==
    <<current_model_id, current_user_id, detection_running, serial_connected,
      serial_connection, data_collection_active, sample_counter, auto_stop_timer,
      detection_predictions, detection_window_complete, session_history,
      threadVars, emitted, finalized, commands>>

\* AnomalyDetector() and load_model
WLoad(file) ==
    /\ current_detector = None
    /\ current_detector' = Some(load_model(AnomalyDetector, file))
    /\ UNCHANGED <<processor, clock, result, since_reset, windowFrame>>

\* update_threshold
WThreshold(t) ==
    /\ current_detector # None
    /\ current_detector' = Some(update_threshold(current_detector[1], t))
    /\ UNCHANGED <<processor, clock, result, since_reset, windowFrame>>

\* process_voltage on the next reading, then predict on its features
WProcess(voltage, dt, raw) ==
    /\ current_detector # None
    /\ since_reset < MaxReadings
    /\ LET r == process_voltage(processor, voltage, clock + dt)
       IN  /\ processor' = r.processor
           /\ result' = Some([features |-> r.features,
                              run |-> PredictRun(current_detector[1], r.features, raw)])
    /\ clock' = clock + dt
    /\ since_reset' = since_reset + 1
    /\ UNCHANGED <<current_detector, windowFrame>>

\* DataProcessor.reset
WReset ==
    /\ processor' = reset(processor)
    /\ since_reset' = 0
    /\ result' = None
    /\ clock' = 1
    /\ UNCHANGED <<current_detector, windowFrame>>

NextWindow ==
    \/ \E f \in WindowFiles : WLoad(f)
    \/ \E t \in WindowThresholds : WThreshold(t)
    \/ \E v \in WindowVoltages, dt \in {0, 1}, raw \in WindowRaws : WProcess(v, dt, raw)
    \/ WReset

SpecWindow == InitWindow /\ [][NextWindow]_vars

\* =====================================================================
\* Spec: the server.  Command handlers, the auto-stop timers and the
\* producer loop run in threads of their own (async_mode='threading',
\* threading.Timer, threading.Thread) and share the globals without a
\* lock; a step is one statement (or one run of statements on locals)
\* between two accesses of shared state.  The model follows one producer
\* loop, one start handler and one stop handler at a time; login, model
\* selection, connect, disconnect, pause and resume are single steps.
\* =====================================================================
\* the model the database holds and the file it points to
ModelIds == {1}
DbFile(model_id) == "pkl"
DbName(model_id) == IF model_id \in ModelIds THEN "Model" ELSE "Unknown Model"
\* raw output of the loaded model: score 0.80
LoopRaws == {60}
\* the voltage the source delivers
LoopVoltage == 100

EvAlreadyRunning ==
    [event |-> "detection_status", running |-> TRUE,
     text |-> "Detection is already running"]
EvNotConnected ==
    [event |-> "detection_status", running |-> FALSE,
     text |-> "Arduino not connected. Connect to Arduino first."]
EvNoModel ==
    [event |-> "detection_status", running |-> FALSE,
     text |-> "No ML model selected. Please select a model first."]
EvNoUser ==
    [event |-> "detection_status", running |-> FALSE,
     text |-> "No user logged in. Please login first."]
EvStarted ==
    [event |-> "detection_started", running |-> TRUE,
     text |-> "ML detection started successfully (30s timeout)"]
EvNotRunning ==
    [event |-> "detection_status", running |-> FALSE,
     text |-> "Detection is not running"]
EvStopped ==
    [event |-> "detection_stopped", running |-> FALSE,
     text |-> "ML detection stopped manually"]
EvDisconnected ==
    [event |-> "data_collection_status", running |-> FALSE,
     text |-> "Data collection stopped due to Arduino disconnect"]

Init == AppInit /\ ThreadsInit /\ ObsInit

\* threading.Timer: is_alive() and cancel()
TimerAlive(t) == t.pc # "done"
TimerCancel(t) == IF t.pc = "pending" THEN [t EXCEPT !.pc = "done"] ELSE t

\* if auto_stop_timer and auto_stop_timer.is_alive(): auto_stop_timer.cancel()
CancelAutoStop(ts, timer) ==
    IF timer # 0 /\ TimerAlive(ts[timer])
    THEN [ts EXCEPT ![timer] = TimerCancel(ts[timer])]
    ELSE ts

\* sessions started so far; the running session is the last one
session_no == Len(finalized)

\* one more verdict computed / entry saved for session s
CountVerdict(f, s) == [f EXCEPT ![s].verdicts = @ + 1]
CountSave(f, s) == [f EXCEPT ![s].saves = @ + 1]

\* ------------------------------------------------ single-step handlers
\* handle_ws_login: the user's active model, when there is one, is selected
Login(has_model) ==
    /\ commands < MaxCommands
    /\ commands' = commands + 1
    /\ current_user_id' = 1
    /\ current_model_id' = IF has_model THEN 1 ELSE current_model_id
    /\ emitted' = NoEvent
    /\ UNCHANGED <<processor, current_detector, detection_running,
                   serial_connected, serial_connection, data_collection_active,
                   sample_counter, auto_stop_timer, detection_predictions,
                   detection_window_complete, session_history, loop, start_h,
                   stop_h, timers, clock, result, since_reset, finalized>>

\* handle_ws_select_model
SelectModel(model_id) ==
    /\ commands < MaxCommands
    /\ commands' = commands + 1
    /\ current_user_id # 0
    /\ current_model_id' = model_id
    /\ current_detector' = Some(load_model(AnomalyDetector, DbFile(model_id)))
    /\ emitted' = NoEvent
    /\ UNCHANGED <<processor, current_user_id, detection_running,
                   serial_connected, serial_connection, data_collection_active,
                   sample_counter, auto_stop_timer, detection_predictions,
                   detection_window_complete, session_history, loop, start_h,
                   stop_h, timers, clock, result, since_reset, finalized>>

\* handle_arduino_connect.  The model follows one loop thread: a connect
\* that finds serial_connected false while the loop thread is still alive
\* only sets the flag.
Connect ==
    /\ commands < MaxCommands
    /\ commands' = commands + 1
    /\ data_collection_active' = TRUE
    /\ loop' = IF ~serial_connected /\ loop.pc = "off"
               THEN [LoopOff EXCEPT !.pc = "connect"] ELSE loop
    /\ emitted' = NoEvent
    /\ UNCHANGED <<processor, current_detector, current_model_id,
                   current_user_id, detection_running, serial_connected,
                   serial_connection, sample_counter, auto_stop_timer,
                   detection_predictions, detection_window_complete,
                   session_history, start_h, stop_h, timers, clock, result,
                   since_reset, finalized>>

\* handle_arduino_disconnect
Disconnect ==
    /\ commands < MaxCommands
    /\ commands' = commands + 1
    /\ serial_connected' = FALSE
    /\ detection_running' = FALSE
    /\ data_collection_active' = FALSE
    /\ serial_connection' = "none"
    /\ timers' = CancelAutoStop(timers, auto_stop_timer)
    /\ detection_predictions' = <<>>
    /\ emitted' = EvDisconnected
    /\ UNCHANGED <<processor, current_detector, current_model_id,
                   current_user_id, sample_counter, auto_stop_timer,
                   detection_window_complete, session_history, loop, start_h,
                   stop_h, clock, result, since_reset, finalized>>

\* handle_pause_data_collection
Pause ==
    /\ commands < MaxCommands
    /\ commands' = commands + 1
    /\ data_collection_active' = FALSE
    /\ emitted' = NoEvent
    /\ UNCHANGED <<processor, current_detector, current_model_id,
                   current_user_id, detection_running, serial_connected,
                   serial_connection, sample_counter, auto_stop_timer,
                   detection_predictions, detection_window_complete,
                   session_history, loop, start_h, stop_h, timers, clock, result,
                   since_reset, finalized>>

\* handle_resume_data_collection
Resume ==
    /\ commands < MaxCommands
    /\ commands' = commands + 1
    /\ data_collection_active' = TRUE
    /\ emitted' = NoEvent
    /\ UNCHANGED <<processor, current_detector, current_model_id,
                   current_user_id, detection_running, serial_connected,
                   serial_connection, sample_counter, auto_stop_timer,
                   detection_predictions, detection_window_complete,
                   session_history, loop, start_h, stop_h, timers, clock, result,
                   since_reset, finalized>>

\* ------------------------------------------- handle_start_detection
\* variant: the guards without the test of the running flag
StartGuards_no_running_check ==
    /\ start_h.pc = "idle"
    /\ commands < MaxCommands
    /\ commands' = commands + 1
    /\ IF ~serial_connected
       THEN emitted' = EvNotConnected /\ UNCHANGED start_h
       ELSE IF current_model_id = 0
       THEN emitted' = EvNoModel /\ UNCHANGED start_h
       ELSE IF current_user_id = 0
       THEN emitted' = EvNoUser /\ UNCHANGED start_h
       ELSE /\ start_h' = [pc |-> "detector", file |-> DbFile(current_model_id)]
            /\ emitted' = NoEvent
    /\ UNCHANGED <<processor, current_detector, current_model_id,
                   current_user_id, detection_running, serial_connected,
                   serial_connection, data_collection_active, sample_counter,
                   auto_stop_timer, detection_predictions,
                   detection_window_complete, session_history, loop, stop_h,
                   timers, clock, result, since_reset, finalized>>

\* variant: the guards without the tests of the source and the model
StartGuards_no_source_check ==
    /\ start_h.pc = "idle"
    /\ commands < MaxCommands
    /\ commands' = commands + 1
    /\ IF detection_running
       THEN emitted' = EvAlreadyRunning /\ UNCHANGED start_h
       ELSE IF current_user_id = 0
       THEN emitted' = EvNoUser /\ UNCHANGED start_h
       ELSE /\ start_h' = [pc |-> "detector", file |-> DbFile(current_model_id)]
            /\ emitted' = NoEvent
    /\ UNCHANGED <<processor, current_detector, current_model_id,
                   current_user_id, detection_running, serial_connected,
                   serial_connection, data_collection_active, sample_counter,
                   auto_stop_timer, detection_predictions,
                   detection_window_complete, session_history, loop, stop_h,
                   timers, clock, result, since_reset, finalized>>

\* lines 324-366: the guards, in the order the code tests them
StartGuards ==
    /\ start_h.pc = "idle"
    /\ commands < MaxCommands
    /\ commands' = commands + 1
    /\ IF detection_running
       THEN emitted' = EvAlreadyRunning /\ UNCHANGED start_h
       ELSE IF ~serial_connected
       THEN emitted' = EvNotConnected /\ UNCHANGED start_h
       ELSE IF current_model_id = 0
       THEN emitted' = EvNoModel /\ UNCHANGED start_h
       ELSE IF current_user_id = 0
       THEN emitted' = EvNoUser /\ UNCHANGED start_h
       ELSE /\ start_h' = [pc |-> "detector", file |-> DbFile(current_model_id)]
            /\ emitted' = NoEvent
    /\ UNCHANGED <<processor, current_detector, current_model_id,
                   current_user_id, detection_running, serial_connected,
                   serial_connection, data_collection_active, sample_counter,
                   auto_stop_timer, detection_predictions,
                   detection_window_complete, session_history, loop, stop_h,
                   timers, clock, result, since_reset, finalized>>

\* lines 368-369: current_detector = AnomalyDetector(); load_model
StartDetector ==
    /\ start_h.pc = "detector"
    /\ current_detector' = Some(load_model(AnomalyDetector, start_h.file))
    /\ start_h' = [start_h EXCEPT !.pc = "running"]
    /\ emitted' = NoEvent
    /\ UNCHANGED <<processor, current_model_id, current_user_id,
                   detection_running, serial_connected, serial_connection,
                   data_collection_active, sample_counter, auto_stop_timer,
                   detection_predictions, detection_window_complete,
                   session_history, loop, stop_h, timers, clock, result,
                   since_reset, finalized, commands>>

\* line 370: detection_running = True; a session begins
StartRunning ==
    /\ start_h.pc = "running"
    /\ detection_running' = TRUE
    /\ finalized' = Append(finalized, [verdicts |-> 0, saves |-> 0])
    /\ start_h' = [start_h EXCEPT !.pc = "reset"]
    /\ emitted' = NoEvent
    /\ UNCHANGED <<processor, current_detector, current_model_id,
                   current_user_id, serial_connected, serial_connection,
                   data_collection_active, sample_counter, auto_stop_timer,
                   detection_predictions, detection_window_complete,
                   session_history, loop, stop_h, timers, clock, result,
                   since_reset, commands>>

\* lines 374-375: the tally and the window flag are reset
StartReset ==
    /\ start_h.pc = "reset"
    /\ detection_predictions' = <<>>
    /\ detection_window_complete' = FALSE
    /\ start_h' = [start_h EXCEPT !.pc = "timer"]
    /\ emitted' = NoEvent
    /\ UNCHANGED <<processor, current_detector, current_model_id,
                   current_user_id, detection_running, serial_connected,
                   serial_connection, data_collection_active, sample_counter,
                   auto_stop_timer, session_history, loop, stop_h, timers, clock,
                   result, since_reset, finalized, commands>>

\* lines 412-422: the auto-stop timer is created and started
StartTimer ==
    /\ start_h.pc = "timer"
    /\ timers' = Append(timers, [pc |-> "pending", session_analysis |-> None, session |-> 0])
    /\ auto_stop_timer' = Len(timers) + 1
    /\ emitted' = EvStarted
    /\ start_h' = StartIdle
    /\ UNCHANGED <<processor, current_detector, current_model_id,
                   current_user_id, detection_running, serial_connected,
                   serial_connection, data_collection_active, sample_counter,
                   detection_predictions, detection_window_complete,
                   session_history, loop, stop_h, clock, result, since_reset,
                   finalized, commands>>

\* -------------------------------------------- handle_stop_detection
\* variant: the handler without the test of the running flag
StopCheck_no_guard ==
    /\ stop_h.pc = "idle"
    /\ commands < MaxCommands
    /\ commands' = commands + 1
    /\ stop_h' = [stop_h EXCEPT !.pc = "set", !.session = session_no]
    /\ emitted' = NoEvent
    /\ UNCHANGED <<processor, current_detector, current_model_id,
                   current_user_id, detection_running, serial_connected,
                   serial_connection, data_collection_active, sample_counter,
                   auto_stop_timer, detection_predictions,
                   detection_window_complete, session_history, loop, start_h,
                   timers, clock, result, since_reset, finalized>>

\* lines 468-474: if not detection_running: report and return
StopCheck ==
    /\ stop_h.pc = "idle"
    /\ commands < MaxCommands
    /\ commands' = commands + 1
    /\ IF ~detection_running
       THEN emitted' = EvNotRunning /\ UNCHANGED stop_h
       ELSE /\ stop_h' = [stop_h EXCEPT !.pc = "set", !.session = session_no]
            /\ emitted' = NoEvent
    /\ UNCHANGED <<processor, current_detector, current_model_id,
                   current_user_id, detection_running, serial_connected,
                   serial_connection, data_collection_active, sample_counter,
                   auto_stop_timer, detection_predictions,
                   detection_window_complete, session_history, loop, start_h,
                   timers, clock, result, since_reset, finalized>>

\* line 477: detection_running = False
StopSet ==
    /\ stop_h.pc = "set"
    /\ detection_running' = FALSE
    /\ stop_h' = [stop_h EXCEPT !.pc = "analyze"]
    /\ emitted' = NoEvent
    /\ UNCHANGED <<processor, current_detector, current_model_id,
                   current_user_id, serial_connected, serial_connection,
                   data_collection_active, sample_counter, auto_stop_timer,
                   detection_predictions, detection_window_complete,
                   session_history, loop, start_h, timers, clock, result,
                   since_reset, finalized, commands>>

\* line 480: session_analysis = analyze_detection_session()
StopAnalyze ==
    /\ stop_h.pc = "analyze"
    /\ stop_h' = [stop_h EXCEPT !.pc = "save",
                    !.session_analysis = Some(analyze_detection_session(detection_predictions))]
    /\ finalized' = CountVerdict(finalized, stop_h.session)
    /\ emitted' = NoEvent
    /\ UNCHANGED <<processor, current_detector, current_model_id,
                   current_user_id, detection_running, serial_connected,
                   serial_connection, data_collection_active, sample_counter,
                   auto_stop_timer, detection_predictions,
                   detection_window_complete, session_history, loop, start_h,
                   timers, clock, result, since_reset, commands>>

\* lines 483-496: saved when the verdict counts at least one prediction
StopSave ==
    /\ stop_h.pc = "save"
    /\ IF stop_h.session_analysis[1].total_predictions > 0
       THEN /\ session_history' =
                   save_session_to_history(session_history, stop_h.session_analysis[1],
                       DbName(current_model_id), current_user_id, "manual_stop",
                       detection_predictions, clock)
            /\ finalized' = CountSave(finalized, stop_h.session)
       ELSE UNCHANGED <<session_history, finalized>>
    /\ stop_h' = [stop_h EXCEPT !.pc = "cancel"]
    /\ emitted' = NoEvent
    /\ UNCHANGED <<processor, current_detector, current_model_id,
                   current_user_id, detection_running, serial_connected,
                   serial_connection, data_collection_active, sample_counter,
                   auto_stop_timer, detection_predictions,
                   detection_window_complete, loop, start_h, timers, clock,
                   result, since_reset, commands>>

\* lines 499-502: the auto-stop timer is cancelled when still alive
StopCancel ==
    /\ stop_h.pc = "cancel"
    /\ timers' = CancelAutoStop(timers, auto_stop_timer)
    /\ stop_h' = [stop_h EXCEPT !.pc = "clear_detector"]
    /\ emitted' = NoEvent
    /\ UNCHANGED <<processor, current_detector, current_model_id,
                   current_user_id, detection_running, serial_connected,
                   serial_connection, data_collection_active, sample_counter,
                   auto_stop_timer, detection_predictions,
                   detection_window_complete, session_history, loop, start_h,
                   clock, result, since_reset, finalized, commands>>

\* line 505: current_detector = None
StopClearDetector ==
    /\ stop_h.pc = "clear_detector"
    /\ current_detector' = None
    /\ stop_h' = [stop_h EXCEPT !.pc = "clear_tally"]
    /\ emitted' = NoEvent
    /\ UNCHANGED <<processor, current_model_id, current_user_id,
                   detection_running, serial_connected, serial_connection,
                   data_collection_active, sample_counter, auto_stop_timer,
                   detection_predictions, detection_window_complete,
                   session_history, loop, start_h, timers, clock, result,
                   since_reset, finalized, commands>>

\* lines 507-514: detection_predictions = []; detection_stopped is emitted
StopClearTally ==
    /\ stop_h.pc = "clear_tally"
    /\ detection_predictions' = <<>>
    /\ emitted' = EvStopped
    /\ stop_h' = StopIdle
    /\ UNCHANGED <<processor, current_detector, current_model_id,
                   current_user_id, detection_running, serial_connected,
                   serial_connection, data_collection_active, sample_counter,
                   auto_stop_timer, detection_window_complete, session_history,
                   loop, start_h, timers, clock, result, since_reset, finalized,
                   commands>>

\* ------------------------------------- auto_stop_detection (the timer)
\* the interval elapses and the timer was not cancelled: the callback runs
TimerExpire(i) ==
    /\ timers[i].pc = "pending"
    /\ timers' = [timers EXCEPT ![i].pc = "check"]
    /\ emitted' = NoEvent
    /\ UNCHANGED <<processor, current_detector, current_model_id,
                   current_user_id, detection_running, serial_connected,
                   serial_connection, data_collection_active, sample_counter,
                   auto_stop_timer, detection_predictions,
                   detection_window_complete, session_history, loop, start_h,
                   stop_h, clock, result, since_reset, finalized, commands>>

\* line 381: if detection_running
TimerCheck(i) ==
    /\ timers[i].pc = "check"
    /\ timers' = IF detection_running
                 THEN [timers EXCEPT ![i].pc = "set", ![i].session = session_no]
                 ELSE [timers EXCEPT ![i].pc = "done"]
    /\ emitted' = NoEvent
    /\ UNCHANGED <<processor, current_detector, current_model_id,
                   current_user_id, detection_running, serial_connected,
                   serial_connection, data_collection_active, sample_counter,
                   auto_stop_timer, detection_predictions,
                   detection_window_complete, session_history, loop, start_h,
                   stop_h, clock, result, since_reset, finalized, commands>>

\* line 382: detection_running = False
TimerSet(i) ==
    /\ timers[i].pc = "set"
    /\ detection_running' = FALSE
    /\ timers' = [timers EXCEPT ![i].pc = "analyze"]
    /\ emitted' = NoEvent
    /\ UNCHANGED <<processor, current_detector, current_model_id,
                   current_user_id, serial_connected, serial_connection,
                   data_collection_active, sample_counter, auto_stop_timer,
                   detection_predictions, detection_window_complete,
                   session_history, loop, start_h, stop_h, clock, result,
                   since_reset, finalized, commands>>

\* line 385: session_analysis = analyze_detection_session()
TimerAnalyze(i) ==
    /\ timers[i].pc = "analyze"
    /\ timers' = [timers EXCEPT ![i].pc = "save",
                    ![i].session_analysis = Some(analyze_detection_session(detection_predictions))]
    /\ finalized' = CountVerdict(finalized, timers[i].session)
    /\ emitted' = NoEvent
    /\ UNCHANGED <<processor, current_detector, current_model_id,
                   current_user_id, detection_running, serial_connected,
                   serial_connection, data_collection_active, sample_counter,
                   auto_stop_timer, detection_predictions,
                   detection_window_complete, session_history, loop, start_h,
                   stop_h, clock, result, since_reset, commands>>

\* lines 388-410: saved when the verdict counts at least one prediction
TimerSave(i) ==
    /\ timers[i].pc = "save"
    /\ IF timers[i].session_analysis[1].total_predictions > 0
       THEN /\ session_history' =
                   save_session_to_history(session_history, timers[i].session_analysis[1],
                       DbName(current_model_id), current_user_id, "timeout",
                       detection_predictions, clock)
            /\ finalized' = CountSave(finalized, timers[i].session)
       ELSE UNCHANGED <<session_history, finalized>>
    /\ timers' = [timers EXCEPT ![i].pc = "done"]
    /\ emitted' = NoEvent
    /\ UNCHANGED <<processor, current_detector, current_model_id,
                   current_user_id, detection_running, serial_connected,
                   serial_connection, data_collection_active, sample_counter,
                   auto_stop_timer, detection_predictions,
                   detection_window_complete, loop, start_h, stop_h, clock,
                   result, since_reset, commands>>

\* ------------------------------------------ arduino_connection_loop
\* lines 742-751: the port is opened, or opening raises
LoopConnect(opens) ==
    /\ loop.pc = "connect"
    /\ IF opens
       THEN /\ serial_connection' = "open"
            /\ serial_connected' = TRUE
            /\ loop' = [loop EXCEPT !.pc = "while"]
       ELSE /\ serial_connected' = FALSE
            /\ UNCHANGED serial_connection
            /\ loop' = [loop EXCEPT !.pc = "finally"]
    /\ emitted' = NoEvent
    /\ UNCHANGED <<processor, current_detector, current_model_id,
                   current_user_id, detection_running, data_collection_active,
                   sample_counter, auto_stop_timer, detection_predictions,
                   detection_window_complete, session_history, start_h, stop_h,
                   timers, clock, result, since_reset, finalized, commands>>

\* the while condition of line 753 (and its re-test of line 756)
LoopCondition ==
    serial_connected /\ serial_connection = "open" /\ data_collection_active

\* lines 753-758: the loop ends
LoopExit ==
    /\ loop.pc = "while"
    /\ ~LoopCondition
    /\ loop' = [loop EXCEPT !.pc = "finally"]
    /\ emitted' = NoEvent
    /\ UNCHANGED <<processor, current_detector, current_model_id,
                   current_user_id, detection_running, serial_connected,
                   serial_connection, data_collection_active, sample_counter,
                   auto_stop_timer, detection_predictions,
                   detection_window_complete, session_history, start_h, stop_h,
                   timers, clock, result, since_reset, finalized, commands>>

\* lines 760-764, 879-882: a line that float() rejects is dropped
LoopMalformed ==
    /\ loop.pc = "while"
    /\ LoopCondition
    /\ since_reset < MaxReadings
    /\ emitted' = NoEvent
    /\ UNCHANGED <<processor, current_detector, current_model_id,
                   current_user_id, detection_running, serial_connected,
                   serial_connection, data_collection_active, sample_counter,
                   auto_stop_timer, detection_predictions,
                   detection_window_complete, session_history, loop, start_h,
                   stop_h, timers, clock, result, since_reset, finalized,
                   commands>>

\* lines 760-785: a reading is parsed, counted, and run through the
\* processor; a tenth of a second passes per iteration (line 882)
LoopRead ==
    /\ loop.pc = "while"
    /\ LoopCondition
    /\ since_reset < MaxReadings
    /\ LET r == process_voltage(processor, LoopVoltage, clock)
       IN  /\ processor' = r.processor
           /\ loop' = [loop EXCEPT !.pc = "gate", !.features = Some(r.features),
                         !.should_process_ml = ((sample_counter + 1) % SAMPLE_EVERY_N = 0)]
    /\ sample_counter' = sample_counter + 1
    /\ clock' = clock + 1
    /\ since_reset' = since_reset + 1
    /\ emitted' = NoEvent
    /\ UNCHANGED <<current_detector, current_model_id, current_user_id,
                   detection_running, serial_connected, serial_connection,
                   data_collection_active, auto_stop_timer,
                   detection_predictions, detection_window_complete,
                   session_history, start_h, stop_h, timers, result, finalized,
                   commands>>

\* line 788: if detection_running and current_detector and should_process_ml
LoopGate ==
    /\ loop.pc = "gate"
    /\ loop' = IF detection_running /\ current_detector # None /\ loop.should_process_ml
               THEN [loop EXCEPT !.pc = "predict"]
               ELSE [loop EXCEPT !.pc = "while", !.features = None]
    /\ emitted' = NoEvent
    /\ UNCHANGED <<processor, current_detector, current_model_id,
                   current_user_id, detection_running, serial_connected,
                   serial_connection, data_collection_active, sample_counter,
                   auto_stop_timer, detection_predictions,
                   detection_window_complete, session_history, start_h, stop_h,
                   timers, clock, result, since_reset, finalized, commands>>

\* line 789: prediction = current_detector.predict(features); with the
\* detector gone the call raises and the handler of line 884 resumes the loop
LoopPredict(raw) ==
    /\ loop.pc = "predict"
    /\ loop' = IF current_detector = None
               THEN [loop EXCEPT !.pc = "while", !.features = None]
               ELSE [loop EXCEPT !.pc = "append",
                       !.prediction = Some(predict(current_detector[1], loop.features[1],
                                                   [ok |-> TRUE, value |-> raw]))]
    /\ emitted' = NoEvent
    /\ UNCHANGED <<processor, current_detector, current_model_id,
                   current_user_id, detection_running, serial_connected,
                   serial_connection, data_collection_active, sample_counter,
                   auto_stop_timer, detection_predictions,
                   detection_window_complete, session_history, start_h, stop_h,
                   timers, clock, result, since_reset, finalized, commands>>

\* line 793: if detection_running (the test and the append of line 794 are
\* separate steps of the thread; another thread can run between them)
LoopAppend ==
    /\ loop.pc = "append"
    /\ loop' = IF detection_running THEN [loop EXCEPT !.pc = "store"]
               ELSE [loop EXCEPT !.pc = "autostop"]
    /\ emitted' = NoEvent
    /\ UNCHANGED <<processor, current_detector, current_model_id,
                   current_user_id, detection_running, serial_connected,
                   serial_connection, data_collection_active, sample_counter,
                   auto_stop_timer, detection_predictions,
                   detection_window_complete, session_history, start_h, stop_h,
                   timers, clock, result, since_reset, finalized, commands>>

\* line 794: detection_predictions.append(prediction)
LoopStore ==
    /\ loop.pc = "store"
    /\ detection_predictions' = Append(detection_predictions, loop.prediction[1])
    /\ loop' = [loop EXCEPT !.pc = "autostop"]
    /\ emitted' = NoEvent
    /\ UNCHANGED <<processor, current_detector, current_model_id,
                   current_user_id, detection_running, serial_connected,
                   serial_connection, data_collection_active, sample_counter,
                   auto_stop_timer, detection_window_complete, session_history,
                   start_h, stop_h, timers, clock, result, since_reset,
                   finalized, commands>>

\* the ml_ready predictions of the tally (line 805)
WindowPredictions(preds) ==
    SelectSeq(preds, LAMBDA p : Get(p, "status", "none") = "ml_ready")

\* lines 797-807: the window flag is raised on the first ml_ready
\* prediction; with the session running and enough ml_ready predictions
\* collected the loop goes on to finalize
LoopAutoStop ==
    /\ loop.pc = "autostop"
    /\ LET window_complete ==
               detection_window_complete \/ loop.prediction[1].status = "ml_ready"
       IN  /\ detection_window_complete' = window_complete
           /\ loop' =
                 IF /\ detection_running /\ window_complete
                    /\ Len(WindowPredictions(detection_predictions)) >= AnalysisCompleteCount
                 THEN [loop EXCEPT !.pc = "analyze", !.session = session_no]
                 ELSE [loop EXCEPT !.pc = "while", !.features = None, !.prediction = None]
    /\ emitted' = NoEvent
    /\ UNCHANGED <<processor, current_detector, current_model_id,
                   current_user_id, detection_running, serial_connected,
                   serial_connection, data_collection_active, sample_counter,
                   auto_stop_timer, detection_predictions, session_history,
                   start_h, stop_h, timers, clock, result, since_reset,
                   finalized, commands>>

\* line 811: session_analysis = analyze_detection_session()
LoopAnalyze ==
    /\ loop.pc = "analyze"
    /\ loop' = [loop EXCEPT !.pc = "save",
                  !.session_analysis = Some(analyze_detection_session(detection_predictions))]
    /\ finalized' = CountVerdict(finalized, loop.session)
    /\ emitted' = NoEvent
    /\ UNCHANGED <<processor, current_detector, current_model_id,
                   current_user_id, detection_running, serial_connected,
                   serial_connection, data_collection_active, sample_counter,
                   auto_stop_timer, detection_predictions,
                   detection_window_complete, session_history, start_h, stop_h,
                   timers, clock, result, since_reset, commands>>

\* lines 814-826: the session is saved
LoopSave ==
    /\ loop.pc = "save"
    /\ session_history' =
           save_session_to_history(session_history, loop.session_analysis[1],
               DbName(current_model_id), current_user_id, "analysis_complete",
               detection_predictions, clock)
    /\ finalized' = CountSave(finalized, loop.session)
    /\ loop' = [loop EXCEPT !.pc = "stop_running"]
    /\ emitted' = NoEvent
    /\ UNCHANGED <<processor, current_detector, current_model_id,
                   current_user_id, detection_running, serial_connected,
                   serial_connection, data_collection_active, sample_counter,
                   auto_stop_timer, detection_predictions,
                   detection_window_complete, start_h, stop_h, timers, clock,
                   result, since_reset, commands>>

\* line 828: detection_running = False
LoopStopRunning ==
    /\ loop.pc = "stop_running"
    /\ detection_running' = FALSE
    /\ loop' = [loop EXCEPT !.pc = "cancel"]
    /\ emitted' = NoEvent
    /\ UNCHANGED <<processor, current_detector, current_model_id,
                   current_user_id, serial_connected, serial_connection,
                   data_collection_active, sample_counter, auto_stop_timer,
                   detection_predictions, detection_window_complete,
                   session_history, start_h, stop_h, timers, clock, result,
                   since_reset, finalized, commands>>

\* lines 838-840: the auto-stop timer is cancelled when still alive
LoopCancel ==
    /\ loop.pc = "cancel"
    /\ timers' = CancelAutoStop(timers, auto_stop_timer)
    /\ loop' = [loop EXCEPT !.pc = "while", !.features = None, !.prediction = None,
                  !.session_analysis = None, !.session = 0]
    /\ emitted' = NoEvent
    /\ UNCHANGED <<processor, current_detector, current_model_id,
                   current_user_id, detection_running, serial_connected,
                   serial_connection, data_collection_active, sample_counter,
                   auto_stop_timer, detection_predictions,
                   detection_window_complete, session_history, start_h, stop_h,
                   clock, result, since_reset, finalized, commands>>

\* lines 897-911: finally: serial_connected = False, the port is closed
LoopFinally ==
    /\ loop.pc = "finally"
    /\ serial_connected' = FALSE
    /\ serial_connection' = "none"
    /\ loop' = LoopOff
    /\ emitted' = NoEvent
    /\ UNCHANGED <<processor, current_detector, current_model_id,
                   current_user_id, detection_running, data_collection_active,
                   sample_counter, auto_stop_timer, detection_predictions,
                   detection_window_complete, session_history, start_h, stop_h,
                   timers, clock, result, since_reset, finalized, commands>>

Next ==
    \/ \E has_model \in BOOLEAN : Login(has_model)
    \/ \E model_id \in ModelIds : SelectModel(model_id)
    \/ Connect
    \/ Disconnect
    \/ Pause
    \/ Resume
    \/ StartGuards
    \/ StartDetector
    \/ StartRunning
    \/ StartReset
    \/ StartTimer
    \/ StopCheck
    \/ StopSet
    \/ StopAnalyze
    \/ StopSave
    \/ StopCancel
    \/ StopClearDetector
    \/ StopClearTally
    \/ \E i \in 1..Len(timers) : TimerExpire(i)
    \/ \E i \in 1..Len(timers) : TimerCheck(i)
    \/ \E i \in 1..Len(timers) : TimerSet(i)
    \/ \E i \in 1..Len(timers) : TimerAnalyze(i)
    \/ \E i \in 1..Len(timers) : TimerSave(i)
    \/ \E opens \in BOOLEAN : LoopConnect(opens)
    \/ LoopExit
    \/ LoopMalformed
    \/ LoopRead
    \/ LoopGate
    \/ \E raw \in LoopRaws : LoopPredict(raw)
    \/ LoopAppend
    \/ LoopStore
    \/ LoopAutoStop
    \/ LoopAnalyze
    \/ LoopSave
    \/ LoopStopRunning
    \/ LoopCancel
    \/ LoopFinally

Spec == Init /\ [][Next]_vars

\* ------------------------------------------------------------ scheduling
\* Every thread that has a step to take is eventually scheduled: a handler
\* runs to its end, a started timer expires and its callback runs, the
\* producer loop finishes the iteration it is in.  Commands and readings
\* arrive or not as the environment pleases.
StartSteps == StartDetector \/ StartRunning \/ StartReset \/ StartTimer

StopSteps ==
    StopSet \/ StopAnalyze \/ StopSave \/ StopCancel \/ StopClearDetector \/ StopClearTally

TimerSteps(i) ==
    /\ i \in 1..Len(timers)
    /\ TimerExpire(i) \/ TimerCheck(i) \/ TimerSet(i) \/ TimerAnalyze(i) \/ TimerSave(i)

LoopSteps ==
    \/ LoopExit
    \/ LoopGate
    \/ \E raw \in LoopRaws : LoopPredict(raw)
    \/ LoopAppend
    \/ LoopStore
    \/ LoopAutoStop
    \/ LoopAnalyze
    \/ LoopSave
    \/ LoopStopRunning
    \/ LoopCancel
    \/ LoopFinally

Fairness ==
    /\ WF_vars(StartSteps)
    /\ WF_vars(StopSteps)
    /\ WF_vars(LoopSteps)
    /\ \A i \in 1..MaxCommands : WF_vars(TimerSteps(i))

FairSpec == Spec /\ Fairness

\* =====================================================================
\* SpecRestart: the same threads from the state the server is in once the
\* producer loop has finalized a first session at the prediction count:
\* the session is over, its tally, detector and window flag are still in
\* place, and the source keeps sending readings.
\* =====================================================================
\* readings the first session has consumed: every SAMPLE_EVERY_N-th one
\* was scored, the last one brought the tally to the count
RestartReadings == SAMPLE_EVERY_N * AnalysisCompleteCount

\* the result of process_voltage on reading n of that session
RestartFeed(n) == Feed(NewProcessor(WindowSize), [i \in 1..n |-> <<LoopVoltage, i>>])

\* the detector handle_start_detection built for that session
RestartDetector == load_model(AnomalyDetector, DbFile(1))

\* the tally the session left behind (lines 793-794; never cleared by the
\* producer loop's finalization, lines 809-840)
RestartTally ==
    [k \in 1..AnalysisCompleteCount |->
        predict(RestartDetector, RestartFeed(SAMPLE_EVERY_N * k).features,
                [ok |-> TRUE, value |-> CHOOSE raw \in LoopRaws : TRUE])]

\* the program's state after that finalization
RestartState ==
    /\ processor = RestartFeed(RestartReadings).processor
    /\ current_detector = Some(RestartDetector)
    /\ current_model_id = 1
    /\ current_user_id = 1
    /\ detection_running = FALSE
    /\ serial_connected = TRUE
    /\ serial_connection = "open"
    /\ data_collection_active = TRUE
    /\ sample_counter = RestartReadings
    /\ auto_stop_timer = 1
    /\ detection_predictions = RestartTally
    /\ detection_window_complete = TRUE
    /\ session_history =
           save_session_to_history(<<>>, analyze_detection_session(RestartTally),
               DbName(1), 1, "analysis_complete", RestartTally, RestartReadings + 1)
    /\ loop = [LoopOff EXCEPT !.pc = "while", !.should_process_ml = TRUE]
    /\ start_h = StartIdle
    /\ stop_h = StopIdle
    /\ timers = <<[pc |-> "done", session_analysis |-> None, session |-> 0]>>
    /\ clock = RestartReadings + 1
    /\ finalized = <<[verdicts |-> 1, saves |-> 1]>>

\* login, connect and start are the commands handled so far; the budget of
\* readings counts from here
InitRestart ==
    /\ RestartState
    /\ emitted = NoEvent
    /\ result = None
    /\ since_reset = 0
    /\ commands = 3

SpecRestart == InitRestart /\ [][Next]_vars

\* =====================================================================
\* SpecSession: one client and the producer loop, one after the other
\* (a command is handled between two loop iterations), from the state a
\* login with an active model and a successful connect leave behind.  The
\* window and the analysis-complete count keep the order the code's
\* defaults have: SAMPLE_EVERY_N < window size, and more readings fit in a
\* session than the ten a sampling claim speaks of.  The 30 s timer does
\* not expire within the readings followed here.  result is the log of
\* the readings and threshold commands seen so far.
\* =====================================================================
\* thresholds a client sends: 0.2 and 1.5
SessionThresholds == {20, 150}

\* AnomalyDetector() with the window size of this specification
SessionDetector == [AnomalyDetector EXCEPT !.window_size = SessionWindow]

InitSession ==
    /\ processor = NewProcessor(SessionWindow)
    /\ current_detector = None
    /\ current_model_id = 1
    /\ current_user_id = 1
    /\ detection_running = FALSE
    /\ serial_connected = TRUE
    /\ serial_connection = "open"
    /\ data_collection_active = TRUE
    /\ sample_counter = 0
    /\ auto_stop_timer = 0
    /\ detection_predictions = <<>>
    /\ detection_window_complete = FALSE
    /\ session_history = <<>>
    /\ loop = [LoopOff EXCEPT !.pc = "while"]
    /\ start_h = StartIdle
    /\ stop_h = StopIdle
    /\ timers = <<>>
    /\ clock = 1
    /\ emitted = NoEvent
    /\ result = <<>>
    /\ since_reset = 0
    /\ finalized = <<>>
    /\ commands = 0

\* what the session specification leaves alone
sessionFrame ==
    <<current_model_id, current_user_id, serial_connected, serial_connection,
      data_collection_active, loop, start_h, stop_h, since_reset, finalized>>

\* a log entry for a set-threshold command
ThresholdEntry(t) ==
    [kind |-> "threshold", n |-> 0, running |-> detection_running,
     post_window |-> FALSE, scored |-> FALSE, status |-> "none", threshold |-> t]

\* a log entry for the n-th valid reading
ReadingEntry(n, features, scored, status) ==
    [kind |-> "reading", n |-> n, running |-> detection_running,
     post_window |-> features.window_full, scored |-> scored, status |-> status,
     threshold |-> IF current_detector # None THEN current_detector[1].threshold ELSE 0]

\* handle_start_detection, run to its end
SStart ==
    /\ commands < MaxSessionCommands
    /\ commands' = commands + 1
    /\ IF detection_running
       THEN /\ emitted' = EvAlreadyRunning
            /\ UNCHANGED <<current_detector, detection_running, detection_predictions,
                           detection_window_complete, timers, auto_stop_timer>>
       ELSE IF ~serial_connected \/ current_model_id = 0 \/ current_user_id = 0
       THEN /\ emitted' = (IF ~serial_connected THEN EvNotConnected
                           ELSE IF current_model_id = 0 THEN EvNoModel ELSE EvNoUser)
            /\ UNCHANGED <<current_detector, detection_running, detection_predictions,
                           detection_window_complete, timers, auto_stop_timer>>
       ELSE /\ current_detector' = Some(load_model(SessionDetector, DbFile(current_model_id)))
            /\ detection_running' = TRUE
            /\ detection_predictions' = <<>>
            /\ detection_window_complete' = FALSE
            /\ timers' = Append(timers, [pc |-> "pending", session_analysis |-> None,
                                         session |-> 0])
            /\ auto_stop_timer' = Len(timers) + 1
            /\ emitted' = EvStarted
    /\ UNCHANGED <<processor, sample_counter, session_history, clock, result, sessionFrame>>

\* handle_stop_detection, run to its end
SStop ==
    /\ commands < MaxSessionCommands
    /\ commands' = commands + 1
    /\ IF ~detection_running
       THEN /\ emitted' = EvNotRunning
            /\ UNCHANGED <<current_detector, detection_running, detection_predictions,
                           session_history, timers>>
       ELSE LET session_analysis == analyze_detection_session(detection_predictions)
            IN  /\ detection_running' = FALSE
                /\ session_history' =
                       IF session_analysis.total_predictions > 0
                       THEN save_session_to_history(session_history, session_analysis,
                                DbName(current_model_id), current_user_id, "manual_stop",
                                detection_predictions, clock)
                       ELSE session_history
                /\ timers' = CancelAutoStop(timers, auto_stop_timer)
                /\ current_detector' = None
                /\ detection_predictions' = <<>>
                /\ emitted' = EvStopped
    /\ UNCHANGED <<processor, sample_counter, auto_stop_timer, detection_window_complete,
                   clock, result, sessionFrame>>

\* handle_update_threshold
SThreshold(t) ==
    /\ commands < MaxSessionCommands
    /\ commands' = commands + 1
    /\ current_detector' =
           IF current_detector # None
           THEN Some(update_threshold(current_detector[1], t))
           ELSE current_detector
    /\ result' = Append(result, ThresholdEntry(t))
    /\ emitted' = NoEvent
    /\ UNCHANGED <<processor, detection_running, sample_counter, auto_stop_timer,
                   detection_predictions, detection_window_complete, session_history,
                   timers, clock, sessionFrame>>

\* variant: the sampling test made on the counter before it is incremented
SRead_sample_before_count(raw) ==
    /\ sample_counter < MaxSamples
    /\ LET n == sample_counter + 1
           r == process_voltage(processor, LoopVoltage, clock)
           scored == detection_running /\ current_detector # None
                        /\ (sample_counter % SAMPLE_EVERY_N = 0)
           prediction == predict(current_detector[1], r.features,
                                 [ok |-> TRUE, value |-> raw])
           tally == IF scored THEN Append(detection_predictions, prediction)
                    ELSE detection_predictions
       IN  /\ processor' = r.processor
           /\ sample_counter' = n
           /\ detection_predictions' = tally
           /\ result' = Append(result, ReadingEntry(n, r.features, scored,
                                   IF scored THEN prediction.status ELSE "none"))
    /\ clock' = clock + 1
    /\ emitted' = NoEvent
    /\ UNCHANGED <<current_detector, detection_running, auto_stop_timer,
                   detection_window_complete, session_history, timers, commands,
                   sessionFrame>>

\* arduino_connection_loop, lines 760-882: one iteration that reads a valid
\* line (an iteration that reads none changes nothing)
SRead(raw) ==
    /\ sample_counter < MaxSamples
    /\ LET n == sample_counter + 1
           should_process_ml == (n % SAMPLE_EVERY_N = 0)
           r == process_voltage(processor, LoopVoltage, clock)
           scored == detection_running /\ current_detector # None /\ should_process_ml
           prediction == predict(current_detector[1], r.features,
                                 [ok |-> TRUE, value |-> raw])
           tally == IF scored THEN Append(detection_predictions, prediction)
                    ELSE detection_predictions
           complete == detection_window_complete
                          \/ (scored /\ prediction.status = "ml_ready")
           finish == /\ scored /\ complete
                     /\ Len(WindowPredictions(tally)) >= SessionCompleteCount
       IN  /\ processor' = r.processor
           /\ sample_counter' = n
           /\ detection_predictions' = tally
           /\ detection_window_complete' = complete
           /\ detection_running' = (detection_running /\ ~finish)
           /\ session_history' =
                  IF finish
                  THEN save_session_to_history(session_history,
                           analyze_detection_session(tally), DbName(current_model_id),
                           current_user_id, "analysis_complete", tally, clock)
                  ELSE session_history
           /\ timers' = IF finish THEN CancelAutoStop(timers, auto_stop_timer) ELSE timers
           /\ result' = Append(result, ReadingEntry(n, r.features, scored,
                                   IF scored THEN prediction.status ELSE "none"))
    /\ clock' = clock + 1
    /\ emitted' = NoEvent
    /\ UNCHANGED <<current_detector, auto_stop_timer, commands, sessionFrame>>

NextSession ==
    \/ SStart
    \/ SStop
    \/ \E t \in SessionThresholds : SThreshold(t)
    \/ \E raw \in LoopRaws : SRead(raw)

SpecSession == InitSession /\ [][NextSession]_vars

\* =====================================================================
\* SpecBuffer: a DataProcessor is fed readings, reset and resized in any
\* order.  result is the log of the readings processed since the last
\* reset, each with the features process_voltage returned for it.
\* =====================================================================
\* sizes passed to update_window_size (0 is refused)
BufferSizes == {0, 1, 3}

InitBuffer == AppInit /\ ThreadsInit /\ ObsInit

\* what the buffer specification leaves alone
bufferFrame ==
    <<current_detector, current_model_id, current_user_id, detection_running,
      serial_connected, serial_connection, data_collection_active, auto_stop_timer,
      detection_predictions, detection_window_complete, session_history,
      threadVars, emitted, finalized, commands>>

\* process_voltage on the next reading, dt after the one before
BProcess(voltage, dt) ==
    /\ sample_counter < MaxBufferReadings
    /\ LET r == process_voltage(processor, voltage, clock + dt)
       IN  /\ processor' = r.processor
           /\ result' = Append(result, [voltage |-> voltage, timestamp |-> clock + dt,
                                        window_size |-> processor.window_size,
                                        features |-> r.features])
    /\ clock' = clock + dt
    /\ sample_counter' = sample_counter + 1
    /\ since_reset' = since_reset + 1
    /\ UNCHANGED bufferFrame

\* DataProcessor.reset
BReset ==
    /\ processor' = reset(processor)
    /\ since_reset' = 0
    /\ result' = <<>>
    /\ UNCHANGED <<clock, sample_counter, bufferFrame>>

\* DataProcessor.update_window_size
BResize(new_size) ==
    /\ processor' = update_window_size(processor, new_size)
    /\ UNCHANGED <<clock, sample_counter, since_reset, result, bufferFrame>>

NextBuffer ==
    \/ \E v \in WindowVoltages, dt \in {0, 1} : BProcess(v, dt)
    \/ BReset
    \/ \E n \in BufferSizes : BResize(n)

SpecBuffer == InitBuffer /\ [][NextBuffer]_vars

\* =====================================================================
\* SpecProducer: the connection commands and the producer threads they
\* start.  Here loop is the sequence of the threads started so far (the
\* code keeps only the last one in serial_thread and never joins it), each
\* with its own position; lines arrive from the source as strings of
\* characters.  result is the log of the commands handled.
\* =====================================================================
\* lines the source sends (after decode and strip, line 761)
SerialLines ==
    { <<"1">>, <<"2", ".", "5">>, <<"o", "v", "f">>, <<>>,
      <<"n", "a", "n">>, <<"-", "i", "n", "f">> }

Digits == <<"0", "1", "2", "3", "4", "5", "6", "7", "8", "9">>

DigitValue(c) == (CHOOSE d \in 1..Len(Digits) : Digits[d] = c) - 1

\* the integer a string of digits denotes
RECURSIVE DigitsValue(_)
DigitsValue(s) ==
    IF s = <<>> THEN 0
    ELSE DigitsValue(SubSeq(s, 1, Len(s) - 1)) * 10 + DigitValue(s[Len(s)])

\* voltage = float(line), line 764: ok is FALSE where float raises
\* ValueError.  After an optional sign float() accepts the words nan, inf
\* and infinity, or digits with at most one point and a digit on one side
\* of it (strings with an exponent or underscores do not occur in
\* SerialLines).  A float is a finite value in units of 1/Scale, of which
\* the first two digits after the point count, or nan, inf or -inf.
ParseFloat(line) ==
    LET Float(kind, v) == [kind |-> kind, value |-> v]
        NotAFloat == [ok |-> FALSE, value |-> Float("none", 0)]
        AllDigits(s) == \A i \in 1..Len(s) : \E d \in 1..Len(Digits) : Digits[d] = s[i]
        FractionValue(s) ==
            LET d1 == IF Len(s) >= 1 THEN DigitValue(s[1]) ELSE 0
                d2 == IF Len(s) >= 2 THEN DigitValue(s[2]) ELSE 0
            IN  (d1 * 10 + d2) * (Scale \div 100)
        FloatUnsigned(s) ==
            LET dots == {i \in 1..Len(s) : s[i] = "."}
                dot  == IF dots = {} THEN Len(s) + 1 ELSE CHOOSE i \in dots : TRUE
                ip   == SubSeq(s, 1, dot - 1)
                fp   == SubSeq(s, dot + 1, Len(s))
            IN  IF s = <<"n", "a", "n">>
                THEN [ok |-> TRUE, value |-> Float("nan", 0)]
                ELSE IF s \in {<<"i", "n", "f">>,
                               <<"i", "n", "f", "i", "n", "i", "t", "y">>}
                THEN [ok |-> TRUE, value |-> Float("inf", 0)]
                ELSE IF /\ Cardinality(dots) <= 1
                        /\ AllDigits(ip) /\ AllDigits(fp)
                        /\ Len(ip) + Len(fp) >= 1
                THEN [ok |-> TRUE,
                      value |-> Float("finite",
                                      DigitsValue(ip) * Scale + FractionValue(fp))]
                ELSE NotAFloat
    IN  IF line = <<>> THEN NotAFloat
        ELSE IF line[1] \in {"+", "-"}
        THEN LET u == FloatUnsigned(Tail(line))
             IN  IF ~u.ok \/ line[1] = "+" THEN u
                 ELSE IF u.value.kind = "finite"
                 THEN [u EXCEPT !.value = Float("finite", 0 - u.value.value)]
                 ELSE IF u.value.kind = "inf"
                 THEN [u EXCEPT !.value = Float("-inf", 0)]
                 ELSE u
        ELSE FloatUnsigned(line)

\* process_voltage, lines 20-26: what it stores, whatever float it is given
StoreReading(p, voltage, timestamp) ==
    [p EXCEPT !.start_time = IF p.start_time = None THEN Some(timestamp) ELSE @,
              !.voltage_buffer = DequeAppend(@, voltage, p.window_size),
              !.timestamp_buffer = DequeAppend(@, timestamp, p.window_size),
              !.sample_count = @ + 1]

\* a thread between its start and the end of its finally block
ThreadAlive(t) == t.pc # "done"

InitProducer ==
    /\ AppInit
    /\ loop = <<>>
    /\ start_h = StartIdle
    /\ stop_h = StopIdle
    /\ timers = <<>>
    /\ ObsInit

\* what the producer specification leaves alone
producerFrame ==
    <<current_detector, current_model_id, current_user_id, auto_stop_timer,
      detection_window_complete, session_history, start_h, stop_h, finalized>>

Logged(cmd) ==
    Append(result, [cmd |-> cmd,
                    connected |-> serial_connected
                                  /\ \E i \in 1..Len(loop) : loop[i].pc \in {"while", "line"}])

\* handle_arduino_connect: a thread is started when the source is not
\* marked connected
PConnect ==
    /\ commands < MaxProducerCommands
    /\ commands' = commands + 1
    /\ result' = Logged("connect")
    /\ data_collection_active' = TRUE
    /\ loop' = IF ~serial_connected THEN Append(loop, [LoopOff EXCEPT !.pc = "connect"])
               ELSE loop
    /\ emitted' = NoEvent
    /\ UNCHANGED <<processor, detection_running, serial_connected, serial_connection,
                   sample_counter, detection_predictions, timers, clock,
                   since_reset, producerFrame>>

\* handle_arduino_disconnect
PDisconnect ==
    /\ commands < MaxProducerCommands
    /\ commands' = commands + 1
    /\ result' = Logged("disconnect")
    /\ serial_connected' = FALSE
    /\ detection_running' = FALSE
    /\ data_collection_active' = FALSE
    /\ serial_connection' = "none"
    /\ timers' = CancelAutoStop(timers, auto_stop_timer)
    /\ detection_predictions' = <<>>
    /\ emitted' = EvDisconnected
    /\ UNCHANGED <<processor, sample_counter, loop, clock, since_reset, producerFrame>>

\* handle_pause_data_collection
PPause ==
    /\ commands < MaxProducerCommands
    /\ commands' = commands + 1
    /\ result' = Logged("pause")
    /\ data_collection_active' = FALSE
    /\ emitted' = NoEvent
    /\ UNCHANGED <<processor, detection_running, serial_connected, serial_connection,
                   sample_counter, detection_predictions, loop, timers, clock,
                   since_reset, producerFrame>>

\* handle_resume_data_collection
PResume ==
    /\ commands < MaxProducerCommands
    /\ commands' = commands + 1
    /\ result' = Logged("resume")
    /\ data_collection_active' = TRUE
    /\ emitted' = NoEvent
    /\ UNCHANGED <<processor, detection_running, serial_connected, serial_connection,
                   sample_counter, detection_predictions, loop, timers, clock,
                   since_reset, producerFrame>>

\* lines 742-751 of thread i: the port is opened, or opening raises
\* (lines 888-896)
TOpen(i, opens) ==
    /\ loop[i].pc = "connect"
    /\ IF opens
       THEN /\ serial_connection' = "open"
            /\ serial_connected' = TRUE
            /\ loop' = [loop EXCEPT ![i].pc = "while"]
       ELSE /\ serial_connected' = FALSE
            /\ UNCHANGED serial_connection
            /\ loop' = [loop EXCEPT ![i].pc = "finally"]
    /\ emitted' = NoEvent
    /\ UNCHANGED <<processor, detection_running, data_collection_active,
                   sample_counter, detection_predictions, timers, clock, result,
                   since_reset, commands, producerFrame>>

\* lines 753-758 of thread i: the while condition and its re-test
TTest(i) ==
    /\ loop[i].pc = "while"
    /\ loop' = [loop EXCEPT ![i].pc = IF LoopCondition THEN "line" ELSE "finally"]
    /\ emitted' = NoEvent
    /\ UNCHANGED <<processor, detection_running, serial_connected, serial_connection,
                   data_collection_active, sample_counter, detection_predictions,
                   timers, clock, result, since_reset, commands, producerFrame>>

\* lines 760-886 of thread i with no session running: a line is read from
\* the port the global refers to; an empty line is skipped (line 762), one
\* that float() rejects is reported (lines 879-880), any other is counted,
\* stored in the window and published; a port closed or taken away by
\* another thread raises, which line 884 catches
TLine(i, line) ==
    /\ loop[i].pc = "line"
    /\ since_reset < MaxLines
    /\ since_reset' = since_reset + 1
    /\ LET parsed == ParseFloat(line)
       IN  IF serial_connection = "open" /\ parsed.ok
           THEN /\ sample_counter' = sample_counter + 1
                /\ processor' = StoreReading(processor, parsed.value, clock)
                /\ clock' = clock + 1
                /\ emitted' = [NoEvent EXCEPT !.event = "arduino_raw_data"]
           ELSE /\ emitted' = NoEvent
                /\ UNCHANGED <<sample_counter, processor, clock>>
    /\ loop' = [loop EXCEPT ![i].pc = "while"]
    /\ UNCHANGED <<detection_running, serial_connected, serial_connection,
                   data_collection_active, detection_predictions, timers, result,
                   commands, producerFrame>>

\* lines 897-911 of thread i: finally
TFinally(i) ==
    /\ loop[i].pc = "finally"
    /\ serial_connected' = FALSE
    /\ serial_connection' = "none"
    /\ loop' = [loop EXCEPT ![i].pc = "done"]
    /\ emitted' = NoEvent
    /\ UNCHANGED <<processor, detection_running, data_collection_active,
                   sample_counter, detection_predictions, timers, clock, result,
                   since_reset, commands, producerFrame>>

NextProducer ==
    \/ PConnect
    \/ PDisconnect
    \/ PPause
    \/ PResume
    \/ \E i \in 1..Len(loop), opens \in BOOLEAN : TOpen(i, opens)
    \/ \E i \in 1..Len(loop) : TTest(i)
    \/ \E i \in 1..Len(loop), line \in SerialLines : TLine(i, line)
    \/ \E i \in 1..Len(loop) : TFinally(i)

SpecProducer == InitProducer /\ [][NextProducer]_vars

\* =====================================================================
\* Properties
\* =====================================================================
\* number of predictions of a tally flagged is_anomaly
FlaggedIn(preds) == Cardinality({i \in 1..Len(preds) : preds[i].is_anomaly})
\* sum of the anomaly scores of a tally
ScoreSumOf(preds) == SeqSum([i \in 1..Len(preds) |-> preds[i].anomaly_score])

\* C1 (as the claim states it): for every session started, at most one
\* verdict is computed and at most one history entry is appended, whatever
\* the interleaving of the timer expiry, the producer loop's count trigger
\* and the manual stop.
C1_SingleFinalize ==
    \A s \in 1..Len(finalized) :
        finalized[s].verdicts <= 1 /\ finalized[s].saves <= 1

\* C6: a start command handled while no session runs and the source is
\* not connected, or no model is selected, emits the error of that
\* condition and returns, leaving the pipeline state (running flag, timer,
\* tally, detector, history and the rest of the globals) unchanged.
C6_StartRejected ==
    [][(StartGuards /\ ~detection_running
            /\ (~serial_connected \/ current_model_id = 0)) =>
        /\ emitted' = (IF ~serial_connected THEN EvNotConnected ELSE EvNoModel)
        /\ start_h'.pc = "idle"
        /\ ~detection_running'
        /\ UNCHANGED <<appVars, timers, finalized>>]_vars

\* a start was rejected for the missing model while the source is connected
C6_Witness ==
    /\ emitted = EvNoModel
    /\ serial_connected
    /\ current_model_id = 0
    /\ ~detection_running
    /\ start_h.pc = "idle"

\* C7: a start command handled while a session is running reports the
\* running status and returns: the tally, the detector, the timer and the
\* rest of the globals are unchanged.
C7_StartWhileRunning ==
    [][(StartGuards /\ detection_running) =>
        /\ emitted' = EvAlreadyRunning
        /\ emitted'.running
        /\ start_h'.pc = "idle"
        /\ UNCHANGED <<appVars, timers, finalized>>]_vars

\* a start was answered "already running" with a non-empty tally and a
\* pending timer, both still in place
C7_Witness ==
    /\ emitted = EvAlreadyRunning
    /\ detection_running
    /\ detection_predictions # <<>>
    /\ auto_stop_timer # 0
    /\ timers[auto_stop_timer].pc = "pending"
    /\ start_h.pc = "idle"

\* C8: a stop command handled while no session is running reports that
\* and returns: history, tally, detector, timer and the rest of the globals
\* are unchanged and no verdict is computed.
C8_StopWhileIdle ==
    [][(StopCheck /\ ~detection_running) =>
        /\ emitted' = EvNotRunning
        /\ stop_h'.pc = "idle"
        /\ UNCHANGED <<appVars, timers, finalized>>]_vars

\* a stop was answered "not running" after a session had been saved
C8_Witness ==
    /\ emitted = EvNotRunning
    /\ ~detection_running
    /\ session_history # <<>>
    /\ stop_h.pc = "idle"

\* C2: for a non-empty tally the verdict is anomalous whenever strictly
\* more than 20% of the predictions are flagged, whatever their scores, and
\* normal whenever at most 20% are flagged and the average score is at
\* most 0.7.
C2_PercentageRule ==
    (result # None /\ detection_predictions # <<>>) =>
        LET n == Len(detection_predictions)
            k == FlaggedIn(detection_predictions)
            ssum == ScoreSumOf(detection_predictions)
        IN  /\ (k * 100 > 20 * n) => result[1].decision = "anomalous"
            /\ (k * 100 <= 20 * n /\ ssum <= 70 * n) => result[1].decision = "normal"

\* exactly 2 of 10 flagged, low average score, verdict normal
C2_Witness ==
    /\ result # None
    /\ Len(detection_predictions) = 10
    /\ FlaggedIn(detection_predictions) = 2
    /\ ScoreSumOf(detection_predictions) <= 70 * 10
    /\ result[1].decision = "normal"

\* C3: for a tally of predictions returned by predict, whenever the mean
\* anomaly score exceeds 0.7 the verdict is anomalous, even when at most
\* 20% of the predictions are flagged.
C3_ScoreRule ==
    (result # None /\ detection_predictions # <<>>) =>
        (ScoreSumOf(detection_predictions) > 70 * Len(detection_predictions)
            => result[1].decision = "anomalous")

\* C4: the verdict over an empty tally is insufficient_data with
\* total_predictions, anomaly_count, anomaly_percentage and confidence 0.
C4_EmptyTally ==
    (result # None /\ detection_predictions = <<>>) =>
        /\ result[1].decision = "insufficient_data"
        /\ result[1].total_predictions = 0
        /\ result[1].anomaly_count = 0
        /\ result[1].anomaly_percentage = 0
        /\ result[1].confidence = 0

\* a verdict was computed over an empty tally
C4_Witness ==
    result # None /\ detection_predictions = <<>> /\ result[1].total_predictions = 0

\* C5: the history holds at most 10 entries, and they are exactly the
\* most recent saves in the order they were saved (save number t was made
\* at time t; clock - 1 saves were made so far).
C5_HistoryFifo ==
    LET n == Len(session_history)
    IN  /\ n <= 10
        /\ n = Min(clock - 1, 10)
        /\ \A i \in 1..n : session_history[i].timestamp = clock - 1 - n + i

\* an 11th entry was saved: the first was evicted, ten remain
C5_Witness ==
    /\ clock - 1 = 11
    /\ Len(session_history) = 10
    /\ session_history[1].timestamp = 2
    /\ session_history[10].timestamp = 11

\* C9: a feature set with sample_count below the window size is answered
\* warming_up with score 0, is_anomaly false and confidence 0, and no
\* backend is invoked, whatever the backend and the threshold.
C9_WarmingUp ==
    (result # None /\ current_detector # None
       /\ result[1].features.sample_count < current_detector[1].window_size) =>
        /\ result[1].run.prediction.status = "warming_up"
        /\ result[1].run.prediction.anomaly_score = 0
        /\ result[1].run.prediction.is_anomaly = FALSE
        /\ result[1].run.prediction.confidence = 0
        /\ result[1].run.invoked = <<>>

\* a model-backed detector with threshold 0 answered a short window
C9_Witness ==
    /\ result # None /\ current_detector # None
    /\ result[1].features.sample_count < current_detector[1].window_size
    /\ current_detector[1].model_type = "sklearn"
    /\ current_detector[1].threshold = 0
    /\ result[1].run.prediction.status = "warming_up"

\* C10: window_full is false for the first W-1 readings since construction
\* or reset and true from the W-th on, and predict answers ml_ready for the
\* W-th and every later reading.
C10_WindowFull ==
    result # None =>
        /\ result[1].features.window_full = (since_reset >= WindowSize)
        /\ (since_reset >= WindowSize) => result[1].run.prediction.status = "ml_ready"

\* the W-th reading after a reset
C10_Witness ==
    /\ result # None
    /\ since_reset = WindowSize
    /\ processor.sample_count = WindowSize
    /\ result[1].features.window_full
    /\ result[1].run.prediction.status = "ml_ready"

\* the reading entries of the session log, in arrival order
ReadingsOf(log) == SelectSeq(log, LAMBDA e : e.kind = "reading")
\* how many of the len entries of rs from the i-th on were scored
ScoredAmong(rs, i, len) == Cardinality({j \in i..(i + len - 1) : rs[j].scored})
\* the len entries of rs from the i-th on were read post-window in a running session
RunningPostWindow(rs, i, len) ==
    \A j \in i..(i + len - 1) : rs[j].running /\ rs[j].post_window

\* C11 (as the claim states it): in a running session exactly the readings
\* whose count is a multiple of 3 are scored, and of any 10 consecutive
\* post-window readings exactly 3 are scored.
C11_ExactlyThreeOfTen ==
    LET rs == ReadingsOf(result)
    IN  /\ \A i \in 1..Len(rs) : rs[i].scored <=> (rs[i].running /\ rs[i].n % 3 = 0)
        /\ \A i \in 1..(Len(rs) - 9) :
               RunningPostWindow(rs, i, 10) => ScoredAmong(rs, i, 10) = 3

\* C11 (amended): in a running session exactly the readings whose count is
\* a multiple of 3 are scored; of any 9 consecutive post-window readings
\* exactly 3 are scored, and of any 10 consecutive ones 3 or 4 are: 4 when
\* the first of the ten is itself a multiple of 3, else 3.
C11_EveryThird ==
    LET rs == ReadingsOf(result)
    IN  /\ \A i \in 1..Len(rs) : rs[i].scored <=> (rs[i].running /\ rs[i].n % 3 = 0)
        /\ \A i \in 1..(Len(rs) - 8) :
               RunningPostWindow(rs, i, 9) => ScoredAmong(rs, i, 9) = 3
        /\ \A i \in 1..(Len(rs) - 9) :
               RunningPostWindow(rs, i, 10) =>
                   ScoredAmong(rs, i, 10) = (IF rs[i].n % 3 = 0 THEN 4 ELSE 3)

\* ten consecutive post-window readings of a running session, four scored
C11_Witness ==
    LET rs == ReadingsOf(result)
    IN  \E i \in 1..(Len(rs) - 9) :
            RunningPostWindow(rs, i, 10) /\ ScoredAmong(rs, i, 10) = 4

\* C12 (as the claim states it): every prediction made after a
\* set-threshold command with value t, in the session it arrived in or in a
\* later one, and whether it arrived with a session running or idle, is
\* decided with threshold clamp(t, 0, 1), until the next such command.
C12_ThresholdPersists ==
    \A i \in 1..Len(result) :
        (result[i].kind = "reading" /\ result[i].status = "ml_ready") =>
            \A j \in 1..(i - 1) :
                (/\ result[j].kind = "threshold"
                 /\ \A k \in (j + 1)..(i - 1) : result[k].kind # "threshold")
                    => result[i].threshold = Max(0, Min(Scale, result[j].threshold))

\* C13 (as the claim states it): every result predict returns has its
\* anomaly score in [0, 1] and its confidence in [0, 1], whatever the
\* features, the raw output of the backend and the threshold.
C13_ScoreInRange ==
    result # None =>
        /\ result[1].run.prediction.anomaly_score \in 0..Scale
        /\ result[1].run.prediction.confidence \in 0..Scale

\* C14 (as the claim states it): a predict call on a full window that ran
\* the rule-based backend, because the load had failed or because the
\* model's inference failed, returns a result tagged method rule_based
\* with status ml_ready.
C14_FallbackTagged ==
    (result # None /\ result[1].run.invoked # <<>>
        /\ result[1].run.invoked[Len(result[1].run.invoked)] = "rule_based") =>
        /\ result[1].run.prediction.method = "rule_based"
        /\ result[1].run.prediction.status = "ml_ready"

\* C15: after reset, whatever was processed before, sample_count is 0, both
\* buffers are empty and start_time is unset; resetting again changes
\* nothing; and the first reading processed after it gets the features a
\* freshly constructed processor returns for the same arguments
\* (sample_count 1, buffer_size 1, time_since_start 0).
C15_ResetIsFresh ==
    /\ reset(reset(processor)) = reset(processor)
    /\ since_reset = 0 => processor = NewProcessor(processor.window_size)
    /\ since_reset = 0 => reset(processor) = processor
    /\ Len(result) >= 1 =>
           LET e == result[1]
           IN  /\ e.features =
                      process_voltage(NewProcessor(e.window_size), e.voltage,
                                      e.timestamp).features
               /\ e.features.sample_count = 1
               /\ e.features.buffer_size = 1
               /\ e.features.time_since_start = 0

\* a reading was processed after a reset that followed earlier readings,
\* later in time than the first reading ever processed
C15_Witness ==
    /\ since_reset = 1
    /\ sample_counter > 2
    /\ result[1].timestamp > 2
    /\ result[1].features.time_since_start = 0

\* C16: after any sequence of process_voltage, reset and update_window_size
\* calls the two buffers have the same length, at most the current window
\* size, and hold the most recent readings in arrival order.
C16_BufferFifo ==
    LET vb == processor.voltage_buffer
        tb == processor.timestamp_buffer
        n == Len(vb)
    IN  /\ Len(tb) = n
        /\ n <= processor.window_size
        /\ n <= Len(result)
        /\ \A i \in 1..n :
               /\ vb[i] = result[Len(result) - n + i].voltage
               /\ tb[i] = result[Len(result) - n + i].timestamp

\* a resized window overflowed: the oldest reading was evicted
C16_Witness ==
    /\ processor.window_size = 3
    /\ Len(result) = 4
    /\ Len(processor.voltage_buffer) = 3
    /\ result[1].voltage # result[2].voltage
    /\ processor.voltage_buffer[1] = result[2].voltage

\* C17 (as the claim states it): a disconnect handled while a session is
\* running with at least one collected prediction finalizes the session: a
\* verdict is computed over the tally and an entry is archived in the
\* history.
C17_DisconnectFinalizes ==
    [][(Disconnect /\ detection_running /\ Len(detection_predictions) >= 1) =>
        /\ Len(finalized') = Len(finalized)
        /\ finalized'[Len(finalized)].verdicts > finalized[Len(finalized)].verdicts
        /\ session_history' # session_history]_vars

\* C19 (as the claim states it): every prediction in the tally of a running
\* session has status ml_ready; warming_up and error results are never
\* appended.
C19_TallyMlReady ==
    detection_running =>
        \A i \in 1..Len(detection_predictions) :
            detection_predictions[i].status = "ml_ready"

\* C20 (as the claim states it): no state is reachable in which a running
\* session's tally holds more ml_ready predictions than the count at which
\* the producer loop finalizes the session.
C20_AtMostCount ==
    detection_running =>
        Len(WindowPredictions(detection_predictions)) <= AnalysisCompleteCount

\* C18 (as the claim states it): a session that is running eventually
\* stops running, with no further command or reading needed, under every
\* fair interleaving of the start, stop, producer and timer steps.
C18_RunningEnds == detection_running ~> ~detection_running

\* C21 (as the claim states it): every finalize of a running session, by
\* manual stop, timer expiry or analysis completion, appends one entry to
\* the session history, also when the session collected no prediction.
C21_FinalizeArchives ==
    [][/\ StopSave =>
              /\ finalized'[stop_h.session].saves = finalized[stop_h.session].saves + 1
              /\ session_history' # session_history
       /\ \A i \in 1..Len(timers) :
              TimerSave(i) =>
                  /\ finalized'[timers[i].session].saves =
                         finalized[timers[i].session].saves + 1
                  /\ session_history' # session_history
       /\ LoopSave =>
              /\ finalized'[loop.session].saves = finalized[loop.session].saves + 1
              /\ session_history' # session_history]_vars

\* C22 (as the claim states it): in every state where a session has been
\* finalized, no session is running and no start or finalize is in
\* progress, the prediction tally is empty.
C22_IdleTallyEmpty ==
    (/\ Len(finalized) >= 1
     /\ \A s \in 1..Len(finalized) : finalized[s].verdicts >= 1
     /\ ~detection_running
     /\ start_h.pc = "idle"
     /\ stop_h.pc = "idle"
     /\ loop.pc \in {"off", "while"}
     /\ \A i \in 1..Len(timers) : timers[i].pc \in {"pending", "done"})
        => detection_predictions = <<>>

\* C23 (as the claim states it): the timer started for session i belongs
\* to session i: its callback only ever stops session i, and a finalize
\* of session s cancels no timer but the one of session s.
C23_OwnTimerOnly ==
    [][/\ StopCancel => (timers' = timers \/ auto_stop_timer = stop_h.session)
       /\ LoopCancel => (timers' = timers \/ auto_stop_timer = loop.session)
       /\ \A i \in 1..Len(timers) : TimerSet(i) => timers[i].session = i]_vars

\* C24 (as the claim states it): no state is reachable in which a session
\* is running while the producer loop has terminated and the source is
\* marked disconnected.
C24_NoRunningWithoutSource ==
    ~(detection_running /\ loop.pc = "off" /\ ~serial_connected)

\* C25 (as the claim states it): once the source is disconnected and the
\* producer loop has ended, the processor's buffers are empty and its
\* sample_count is 0.
C25_WindowCleared ==
    (~serial_connected /\ loop.pc = "off") =>
        /\ processor.voltage_buffer = <<>>
        /\ processor.timestamp_buffer = <<>>
        /\ processor.sample_count = 0

\* C28 (as the claim states it): in every reachable state a running
\* session has a detector.
C28_RunningHasDetector == detection_running => current_detector # None

\* C27 (as the claim states it): the producer thread appends no prediction
\* to the tally once the verdict of the session it was scored for has
\* been computed.
C27_NoAppendAfterVerdict ==
    [][LoopStore => finalized[session_no].verdicts = 0]_vars

\* C26 (as the claim states it): a line that is not a number is dropped
\* without effect: the window, the processor's sample_count, the sampling
\* counter, the tally and the session state are unchanged, no event is
\* published, and the thread goes on to the next line.
C26_MalformedDropped ==
    [][\A i \in 1..Len(loop), line \in SerialLines :
          LET body == IF line # <<>> /\ line[1] \in {"+", "-"} THEN Tail(line) ELSE line
              IsDigit(c) == \E d \in 1..Len(Digits) : Digits[d] = c
              \* a decimal numeral: an optional sign, then digits with at
              \* most one point among them
              DecimalNumeral ==
                  /\ \E k \in 1..Len(body) : IsDigit(body[k])
                  /\ \A k \in 1..Len(body) : IsDigit(body[k]) \/ body[k] = "."
                  /\ Cardinality({k \in 1..Len(body) : body[k] = "."}) <= 1
          IN
          (TLine(i, line) /\ ~DecimalNumeral) =>
              /\ UNCHANGED <<processor, sample_counter, detection_predictions,
                             detection_running>>
              /\ emitted' = NoEvent
              /\ loop'[i].pc = "while"]_vars

\* C29 (as the claim states it): at most one producer thread is alive at
\* any time.
C29_SingleProducer ==
    Cardinality({i \in 1..Len(loop) : ThreadAlive(loop[i])}) <= 1

\* C30 (as the claim states it): when a pause that found the source
\* connected and the loop running is followed by a resume, the producer
\* loop is alive and the source is still marked connected.
C30_ResumeRestores ==
    (/\ Len(result) >= 2
     /\ result[Len(result)].cmd = "resume"
     /\ result[Len(result) - 1].cmd = "pause"
     /\ result[Len(result) - 1].connected)
        => /\ serial_connected
           /\ \E i \in 1..Len(loop) : ThreadAlive(loop[i])

=============================================================================
